---------------------------- MODULE Spec2Model ----------------------------
(***************************************************************************)
(* A model of the curation and ranking engine of hilo-news:                *)
(*   app/policy.py            canonicalize_provider, the relevance and     *)
(*                            editorial filters, _dedupe, _score,          *)
(*                            _declump_same_minute, apply_policy_core,     *)
(*                            _fill_with_limit, page_with_caps             *)
(*   app/policy_near_dupes.py _bucket_key, _classify, _normalize_opponent, *)
(*                            _normalized_title_key, collapse_near_dupes   *)
(*   app/main.py              get_news from the end of its fetch phase on  *)
(*   app/db.py                ensure_schema, upsert_items, load_items      *)
(*   app/persist.py           fetch_with_persistence                       *)
(*                                                                         *)
(* Python strings are TLA+ strings: TLC evaluates Len, SubSeq, Tail and \o *)
(* on them, so lower(), strip(), split(), `in` and the regular expressions *)
(* of the source are computed character by character.  A news item is a    *)
(* record with the fields of the source's dict; an absent or None field is *)
(* the empty string (every read in the source is `it.get(f) or ""`).       *)
(***************************************************************************)
EXTENDS Integers, Sequences, FiniteSets, TLC

VARIABLES
    items,      \* the list handed to the engine (dicts, in arrival order)
    op,         \* the operation that ran last
    arg,        \* the list that operation was called with
    result,     \* the list it returned
    page,       \* page_with_caps: the page argument
    page_size,  \* page_with_caps: the page_size argument
    caps,       \* page_with_caps: the caps argument (a function on providers)
    db          \* db.py: the SQLite file (is the table there, and its rows)

vars == <<items, op, arg, result, page, page_size, caps, db>>

\* The value of e handed to F: an expression of the code is evaluated once
\* and its value bound to a name.
With(e, F(_)) == CHOOSE r \in {F(v) : v \in {e}} : TRUE

---------------------------------------------------------------------------
(* Characters.  The code points of the printable ASCII characters the      *)
(* data uses: each row is <<code point of its first character, run>>.      *)
ASCII ==
    << <<32, " !">>,
       <<35, "#$%&'()*+,-./0123456789:;<=>?@ABCDEFGHIJKLMNOPQRSTUVWXYZ[">>,
       <<93, "]^_">>,
       <<97, "abcdefghijklmnopqrstuvwxyz{|}~">> >>

\* s[i] of Python (1-based here); "" when i is out of range
CharAt(s, i) == IF i >= 1 /\ i <= Len(s) THEN SubSeq(s, i, i) ELSE ""

\* s[a-1:b] of Python: the characters at positions a..b that exist
Slice(s, a, b) ==
    LET lo == IF a < 1 THEN 1 ELSE a
        hi == IF b > Len(s) THEN Len(s) ELSE b
    IN  IF lo > hi THEN "" ELSE SubSeq(s, lo, hi)

\* `k in t` for strings
Contains(t, k) ==
    \E i \in 1..(Len(t) - Len(k) + 1) : SubSeq(t, i, i + Len(k) - 1) = k

\* s.find(k) + 1: the first position of k in s, 0 when absent
Find(s, k) ==
    IF Contains(s, k)
    THEN CHOOSE i \in 1..(Len(s) - Len(k) + 1) :
            /\ SubSeq(s, i, i + Len(k) - 1) = k
            /\ \A j \in 1..(i - 1) : SubSeq(s, j, j + Len(k) - 1) # k
    ELSE 0

Chars ==
    UNION { {CharAt(ASCII[k][2], i) : i \in 1..Len(ASCII[k][2])} : k \in 1..Len(ASCII) }

\* the code point of each character (computed once)
CodePoint ==
    [ c \in Chars |->
        LET k == CHOOSE k \in 1..Len(ASCII) : Contains(ASCII[k][2], c)
        IN  ASCII[k][1] + Find(ASCII[k][2], c) - 1 ]

ord(c) == CodePoint[c]

chr(n) ==
    LET k == CHOOSE k \in 1..Len(ASCII) :
                n >= ASCII[k][1] /\ n < ASCII[k][1] + Len(ASCII[k][2])
    IN  CharAt(ASCII[k][2], n - ASCII[k][1] + 1)

IsUpper(c) == c # "" /\ ord(c) >= 65 /\ ord(c) <= 90
IsLowerAlpha(c) == c # "" /\ ord(c) >= 97 /\ ord(c) <= 122
IsDigit(c) == c # "" /\ ord(c) >= 48 /\ ord(c) <= 57
\* \s and \w of the re module, on ASCII
IsSpace(c) == c = " "
IsWordCh(c) == IsUpper(c) \/ IsLowerAlpha(c) \/ IsDigit(c) \/ c = "_"

\* str.lower()
RECURSIVE lower(_)
lower(s) ==
    IF s = "" THEN ""
    ELSE IF Len(s) = 1
    THEN LET c == CharAt(s, 1)
         IN  IF IsUpper(c) THEN chr(ord(c) + 32) ELSE c
    ELSE lower(SubSeq(s, 1, Len(s) \div 2))
         \o lower(SubSeq(s, Len(s) \div 2 + 1, Len(s)))

\* str.strip()
strip(s) ==
    IF \A i \in 1..Len(s) : IsSpace(CharAt(s, i)) THEN ""
    ELSE LET a == CHOOSE i \in 1..Len(s) :
                    ~IsSpace(CharAt(s, i)) /\ \A j \in 1..(i-1) : IsSpace(CharAt(s, j))
             b == CHOOSE i \in 1..Len(s) :
                    ~IsSpace(CharAt(s, i)) /\ \A j \in (i+1)..Len(s) : IsSpace(CharAt(s, j))
         IN  SubSeq(s, a, b)

\* str.replace(old, new), every occurrence, left to right
RECURSIVE replace(_, _, _)
replace(s, old, new) ==
    LET i == Find(s, old)
    IN  IF i = 0 THEN s
        ELSE SubSeq(s, 1, i - 1) \o new
             \o replace(SubSeq(s, i + Len(old), Len(s)), old, new)

\* str.split(): the maximal runs of non-whitespace, in order
RECURSIVE split(_)
split(s) ==
    LET t == strip(s)
    IN  IF t = "" THEN << >>
        ELSE LET e == IF Contains(t, " ") THEN Find(t, " ") - 1 ELSE Len(t)
             IN  <<SubSeq(t, 1, e)>> \o split(SubSeq(t, e + 1, Len(t)))

\* " ".join(words)
RECURSIVE join(_)
join(ws) ==
    IF ws = << >> THEN ""
    ELSE IF Len(ws) = 1 THEN ws[1]
    ELSE ws[1] \o " " \o join(Tail(ws))

\* re.sub(r"[^\w\s]", " ", t): every character that is neither a word
\* character nor whitespace becomes a space
RECURSIVE punct_to_space(_)
punct_to_space(s) ==
    IF s = "" THEN ""
    ELSE IF Len(s) = 1
    THEN LET c == CharAt(s, 1)
         IN  IF IsWordCh(c) \/ IsSpace(c) THEN c ELSE " "
    ELSE punct_to_space(SubSeq(s, 1, Len(s) \div 2))
         \o punct_to_space(SubSeq(s, Len(s) \div 2 + 1, Len(s)))

\* \b of the re module at the gap after position i (0 = before the string)
Boundary(s, i) == IsWordCh(CharAt(s, i)) # IsWordCh(CharAt(s, i + 1))

\* re.search(r"\bk\b", s) for a literal k
HasWord(s, k) ==
    \E i \in 1..(Len(s) - Len(k) + 1) :
        /\ SubSeq(s, i, i + Len(k) - 1) = k
        /\ Boundary(s, i - 1)
        /\ Boundary(s, i + Len(k) - 1)

\* a < b for Python strings: at the first position where they differ the
\* code point of a is the smaller, or a is a proper prefix of b
str_lt(a, b) ==
    LET m == IF Len(a) < Len(b) THEN Len(a) ELSE Len(b)
    IN  \E d \in 1..(m + 1) :
            /\ SubSeq(a, 1, d - 1) = SubSeq(b, 1, d - 1)
            /\ IF d = m + 1 THEN Len(a) < Len(b)
               ELSE ord(CharAt(a, d)) < ord(CharAt(b, d))

---------------------------------------------------------------------------
(* Dates.  A datetime is the number of seconds since 1970-01-01T00:00:00   *)
(* UTC; NoDate stands for None.  dateutil's parser is modelled on the      *)
(* shapes the feeds carry, YYYY-MM-DDTHH:MM:SS followed by Z or by an      *)
(* offset +HH:MM / -HH:MM; on any other text it raises.                    *)
NoDate == -1

RECURSIVE num(_)
num(s) == IF s = "" THEN 0
          ELSE 10 * num(SubSeq(s, 1, Len(s) - 1)) + (ord(CharAt(s, Len(s))) - 48)

AllDigits(s) == \A i \in 1..Len(s) : IsDigit(CharAt(s, i))

\* days between 1970-01-01 and the civil date y-m-d (datetime's proleptic
\* Gregorian calendar)
days_from_civil(y, m, d) ==
    LET yy  == IF m <= 2 THEN y - 1 ELSE y
        era == yy \div 400
        yoe == yy - era * 400
        mp  == IF m > 2 THEN m - 3 ELSE m + 9
        doy == (153 * mp + 2) \div 5 + d - 1
        doe == yoe * 365 + yoe \div 4 - yoe \div 100 + doy
    IN  era * 146097 + doe - 719468

\* the civil date <<y, m, d>> of a day number
civil_from_days(z) ==
    LET zz  == z + 719468
        era == zz \div 146097
        doe == zz - era * 146097
        yoe == (doe - doe \div 1460 + doe \div 36524 - doe \div 146096) \div 365
        doy == doe - (365 * yoe + yoe \div 4 - yoe \div 100)
        mp  == (5 * doy + 2) \div 153
        d   == doy - (153 * mp + 2) \div 5 + 1
        m   == IF mp < 10 THEN mp + 3 ELSE mp - 9
        y   == yoe + era * 400 + (IF m <= 2 THEN 1 ELSE 0)
    IN  <<y, m, d>>

\* the text has a shape du.parse() accepts
IsIso(s) ==
    /\ Len(s) \in {20, 25}
    /\ AllDigits(SubSeq(s, 1, 4)) /\ CharAt(s, 5) = "-"
    /\ AllDigits(SubSeq(s, 6, 7)) /\ CharAt(s, 8) = "-"
    /\ AllDigits(SubSeq(s, 9, 10)) /\ CharAt(s, 11) = "T"
    /\ AllDigits(SubSeq(s, 12, 13)) /\ CharAt(s, 14) = ":"
    /\ AllDigits(SubSeq(s, 15, 16)) /\ CharAt(s, 17) = ":"
    /\ AllDigits(SubSeq(s, 18, 19))
    /\ num(SubSeq(s, 6, 7)) \in 1..12 /\ num(SubSeq(s, 9, 10)) >= 1
    /\ LET y == num(SubSeq(s, 1, 4))
           m == num(SubSeq(s, 6, 7))
           d == num(SubSeq(s, 9, 10))
       IN  civil_from_days(days_from_civil(y, m, d)) = <<y, m, d>>
    /\ num(SubSeq(s, 12, 13)) < 24 /\ num(SubSeq(s, 15, 16)) < 60
    /\ num(SubSeq(s, 18, 19)) < 60
    /\ \/ Len(s) = 20 /\ CharAt(s, 20) = "Z"
       \/ /\ Len(s) = 25 /\ CharAt(s, 20) \in {"+", "-"}
          /\ AllDigits(SubSeq(s, 21, 22)) /\ CharAt(s, 23) = ":"
          /\ AllDigits(SubSeq(s, 24, 25))

\* du.parse(s).astimezone(timezone.utc), for a text IsIso accepts
du_parse_utc(s) ==
    LET local == days_from_civil(num(SubSeq(s, 1, 4)), num(SubSeq(s, 6, 7)),
                                 num(SubSeq(s, 9, 10))) * 86400
                 + num(SubSeq(s, 12, 13)) * 3600 + num(SubSeq(s, 15, 16)) * 60
                 + num(SubSeq(s, 18, 19))
        off   == IF Len(s) = 20 THEN 0
                 ELSE (IF CharAt(s, 20) = "-" THEN -1 ELSE 1)
                      * (num(SubSeq(s, 21, 22)) * 3600 + num(SubSeq(s, 24, 25)) * 60)
    IN  local - off

pad2(n) == chr(48 + ((n \div 10) % 10)) \o chr(48 + (n % 10))
pad4(n) == pad2(n \div 100) \o pad2(n % 100)

\* dt.strftime("%Y-%m-%d")
strftime_ymd(dt) ==
    LET c == civil_from_days(dt \div 86400)
    IN  pad4(c[1]) \o "-" \o pad2(c[2]) \o "-" \o pad2(c[3])

\* dt.strftime("%Y-%m-%dT%H:%M")
strftime_ymdhm(dt) ==
    strftime_ymd(dt) \o "T" \o pad2((dt % 86400) \div 3600)
                     \o ":" \o pad2((dt % 3600) \div 60)

\* policy._to_utc_iso: isoformat() with "+00:00" replaced by "Z"
_to_utc_iso(dt) == strftime_ymdhm(dt) \o ":" \o pad2(dt % 60) \o "Z"

\* policy._parse_dt: None for an empty or unparseable text
_parse_dt(dt_str) ==
    IF dt_str = "" THEN NoDate
    ELSE IF IsIso(dt_str) THEN du_parse_utc(dt_str) ELSE NoDate

\* policy_near_dupes._parse_dt: the epoch for an unparseable text
nd_parse_dt(s) == IF IsIso(s) THEN du_parse_utc(s) ELSE 0

\* policy._iso
_iso(dt) == IF dt = "" THEN "1970-01-01T00:00:00Z" ELSE dt

---------------------------------------------------------------------------
(* The feed.  An item is a record of the fields of the source's dict, plus *)
(* obj, the identity of the dict (Python lists hold references).           *)
Item(id, provider, title, url, imageUrl, publishedUtc) ==
    [ obj |-> 0, id |-> id, provider |-> provider, title |-> title,
      summary |-> "", url |-> url, imageUrl |-> imageUrl,
      publishedUtc |-> publishedUtc ]

ES_PREVIEW == Item("es-1", "EveningStandard", "Arsenal vs Chelsea preview",
                   "https://standard.co.uk/a1", "a1.jpg", "2024-03-01T22:30:00Z")
ES_KICKOFF == Item("es-2", "standard.co.uk", "Chelsea vs Arsenal kick-off time",
                   "https://standard.co.uk/a2", "a2.jpg", "2024-03-01T23:00:00Z")
AB_ODDS    == Item("ab-1", "Arseblog", "Arsenal vs Chelsea odds",
                   "https://arseblog.com/c1", "", "2024-03-02T00:30:00Z")
AB_ODDS_2  == Item("ab-2", "Arseblog", "Arsenal v Chelsea: odds",
                   "https://arseblog.com/c2", "", "2024-03-02T01:30:00+01:00")
AB_SAKA    == Item("ab-3", "Arseblog", "Saka signs new deal",
                   "https://arseblog.com/saka", "", "2024-03-01T10:00:00Z")
AB_SAKA_HTTP  == Item("ab-4", "Arseblog", "Saka signs new deal",
                   "http://arseblog.com/saka/", "", "2024-03-01T10:00:00Z")
AB_SAKA_UPPER == Item("ab-5", "Arseblog", "Saka signs new deal",
                   "HTTPS://ARSEBLOG.COM/saka", "s.jpg", "2024-03-01T10:00:00Z")
AI_SAKA    == Item("ai-1", "ArsenalInsider", "Saka signs new deal!",
                   "https://arsenalinsider.com/d1", "d1.jpg", "2024-03-01T12:00:00Z")
AO_REPORT  == Item("ao-1", "ArsenalOfficial", "Arsenal v Chelsea match report",
                   "https://arsenal.com/r1", "", "2024-03-01T21:00:00Z")
PA_RATINGS == Item("pa-1", "PainInTheArsenal", "Arsenal vs Chelsea player ratings",
                   "https://paininthearsenal.com/r2", "r2.jpg", "2024-03-01T21:30:00Z")

Catalogue ==
    { ES_PREVIEW, ES_KICKOFF, AB_ODDS, AB_ODDS_2, AB_SAKA, AB_SAKA_HTTP,
      AB_SAKA_UPPER, AI_SAKA, AO_REPORT, PA_RATINGS }

\* A second feed, of stories no two of which are duplicates of any kind:
\* the corpus the page composer is handed is drawn from it.
PG_ES_1 == Item("es-11", "standard.co.uk", "Arsenal eye summer move for striker",
                "https://standard.co.uk/p1", "p1.jpg", "2024-03-03T12:00:00Z")
PG_AB_1 == Item("ab-11", "Arseblog", "Arteta on squad rotation",
                "https://arseblog.com/p2", "", "2024-03-03T11:00:00Z")
PG_AI_1 == Item("ai-11", "ArsenalInsider", "Odegaard injury update",
                "https://arsenalinsider.com/p3", "p3.jpg", "2024-03-03T10:00:00Z")
PG_AB_2 == Item("ab-12", "Arseblog", "Academy round-up",
                "https://arseblog.com/p4", "", "2024-03-03T09:00:00Z")
PG_ES_2 == Item("es-12", "EveningStandard", "Arsenal contract talks latest",
                "https://standard.co.uk/p5", "p5.jpg", "2024-03-03T08:00:00Z")
PG_AB_3 == Item("ab-13", "Arseblog", "Rice on the title race",
                "https://arseblog.com/p6", "", "2024-03-03T07:00:00Z")
PG_AI_2 == Item("ai-12", "ArsenalInsider", "Loan watch",
                "https://arsenalinsider.com/p7", "", "2024-03-03T06:00:00Z")

\* stories of a provider the cap table has no entry for
PG_AO_1 == Item("ao-11", "ArsenalOfficial", "Club statement",
                "https://arsenal.com/p8", "", "2024-03-03T11:30:00Z")
PG_AO_2 == Item("ao-12", "ArsenalOfficial", "Training gallery notes",
                "https://arsenal.com/p9", "", "2024-03-03T10:30:00Z")
PG_AO_3 == Item("ao-13", "ArsenalOfficial", "Ticket information",
                "https://arsenal.com/p10", "", "2024-03-03T09:30:00Z")

PageCatalogue ==
    { PG_ES_1, PG_AB_1, PG_AI_1, PG_AB_2, PG_ES_2, PG_AB_3, PG_AI_2,
      PG_AO_1, PG_AO_2, PG_AO_3 }

\* A third feed, of records as an ingestion can hand them over: timestamps
\* with an offset, equal timestamps, a timestamp that is absent and one that
\* is no date, a record without a title and one without a url.
SO_TZ      == Item("so-1", "Arseblog", "Arteta on the run-in",
                   "https://arseblog.com/s1", "", "2024-03-02T01:30:00+01:00")
SO_UTC     == Item("so-2", "ArsenalInsider", "Training ground notes",
                   "https://arsenalinsider.com/s1", "", "2024-03-02T01:00:00Z")
SO_A       == Item("so-3", "Arseblog", "Academy round-up",
                   "https://arseblog.com/s3", "", "2024-03-02T09:00:00Z")
SO_Z       == Item("so-4", "Arseblog", "Zinchenko fitness update",
                   "https://arseblog.com/s5", "", "2024-03-02T09:00:00Z")
SO_M       == Item("so-5", "ArsenalInsider", "Martinelli contract latest",
                   "https://arsenalinsider.com/s2", "", "2024-03-02T09:00:00Z")
SO_NOTITLE == Item("so-6", "Arseblog", "",
                   "https://arseblog.com/s6", "", "2024-03-02T08:00:00Z")
SO_NOURL   == Item("so-7", "Arseblog", "Squad numbers confirmed",
                   "", "", "2024-03-02T07:00:00Z")
SO_NODATE  == Item("so-8", "Arseblog", "Kit launch details",
                   "https://arseblog.com/s7", "", "")
SO_BADDATE == Item("so-9", "ArsenalInsider", "Summer tour dates",
                   "https://arsenalinsider.com/s3", "", "unknown")

SortCatalogue ==
    { SO_TZ, SO_UTC, SO_A, SO_Z, SO_M, SO_NOTITLE, SO_NOURL, SO_NODATE, SO_BADDATE }

\* A fourth feed, of stories the editorial rules of apply_policy_core
\* decide on: banned kinds, the excluded demographic, general press with
\* and without a relevance signal, pre-match and post-match pieces.
FL_LIVE_REPORT ==
    Item("fl-1", "PainInTheArsenal", "Arsenal v Chelsea match report: as it happened",
        "https://paininthearsenal.com/f1", "", "2024-03-05T22:00:00Z")
FL_HOWTO_PREVIEW ==
    Item("fl-2", "EveningStandard", "Arsenal vs Brighton preview: how to watch",
        "https://standard.co.uk/f2", "f2.jpg", "2024-03-05T21:00:00Z")
FL_GALLERY_URL ==
    Item("fl-3", "Arseblog", "Training ahead of the derby",
        "https://arseblog.com/gallery/f3", "", "2024-03-05T20:00:00Z")
FL_WOMEN ==
    Item("fl-4", "Arseblog", "Arsenal Women win the derby",
        "https://arseblog.com/f4", "", "2024-03-05T19:00:00Z")
FL_WSL_SUMMARY ==
    [ Item("fl-5", "ArsenalInsider", "Derby day round-up",
           "https://arsenalinsider.com/f5", "", "2024-03-05T18:00:00Z")
        EXCEPT !.summary = "A WSL record crowd watched the derby at the Emirates" ]
FL_U18_U21 ==
    Item("fl-6", "PainInTheArsenal", "U18 and U21 fixtures confirmed",
        "https://paininthearsenal.com/f6", "", "2024-03-05T17:00:00Z")
FL_DM_OFFTOPIC ==
    Item("fl-7", "DailyMail", "Chelsea close in on striker",
        "https://www.dailymail.co.uk/sport/football/article-7", "f7.jpg", "2024-03-05T16:00:00Z")
FL_DM_SECTION ==
    Item("fl-8", "dailymail.co.uk", "Striker closes in on summer move",
        "https://www.dailymail.co.uk/sport/football/arsenal/article-8", "f8.jpg", "2024-03-05T15:00:00Z")
FL_AI_TEAMNEWS ==
    Item("fl-9", "ArsenalInsider", "Team news for the trip to Brighton",
        "https://arsenalinsider.com/f9", "", "2024-03-05T14:00:00Z")
FL_AB_REACTION ==
    Item("fl-10", "Arseblog", "Arteta reaction to the Brighton win",
        "https://arseblog.com/f10", "", "2024-03-05T13:00:00Z")
FL_PA_TAKEAWAYS ==
    Item("fl-11", "PainInTheArsenal", "Three takeaways from the Brighton win",
        "https://paininthearsenal.com/f11", "", "2024-03-05T12:00:00Z")
FL_ES_TEAMNEWS ==
    Item("fl-12", "EveningStandard", "Arsenal team news ahead of Brighton",
        "https://standard.co.uk/f12", "f12.jpg", "2024-03-05T11:00:00Z")
FL_AB_MOTM ==
    Item("fl-13", "Arseblog", "Report: Saka the man of the match",
        "https://arseblog.com/f13", "", "2024-03-05T10:00:00Z")

FilterCatalogue ==
    { FL_LIVE_REPORT, FL_HOWTO_PREVIEW, FL_GALLERY_URL, FL_WOMEN,
      FL_WSL_SUMMARY, FL_U18_U21, FL_DM_OFFTOPIC, FL_DM_SECTION,
      FL_AI_TEAMNEWS, FL_AB_REACTION, FL_PA_TAKEAWAYS, FL_ES_TEAMNEWS,
      FL_AB_MOTM }

\* every feed a specification draws from
Feeds == Catalogue \cup PageCatalogue \cup SortCatalogue \cup FilterCatalogue

---------------------------------------------------------------------------
(* Sequences of items.                                                     *)
Range(f) == {f[i] : i \in DOMAIN f}

\* any(k in t for k in keys)
has_any(t, keys) == \E i \in 1..Len(keys) : Contains(t, keys[i])

---------------------------------------------------------------------------
(* policy.py: provider normalization                                       *)
_CANON ==
    << <<"arsenalinsider.com", "ArsenalInsider">>,
       <<"paininthearsenal.com", "PainInTheArsenal">>,
       <<"arseblog.com", "Arseblog">>,
       <<"standard.co.uk", "EveningStandard">>,
       <<"dailymail.co.uk", "DailyMail">>,
       <<"ArsenalInsider", "ArsenalInsider">>,
       <<"PainInTheArsenal", "PainInTheArsenal">>,
       <<"Arseblog", "Arseblog">>,
       <<"EveningStandard", "EveningStandard">>,
       <<"DailyMail", "DailyMail">> >>

\* dict.get(key, default) on a table of <<key, value>> rows
dict_get(table, key, default) ==
    IF \E i \in 1..Len(table) : table[i][1] = key
    THEN table[CHOOSE i \in 1..Len(table) : table[i][1] = key][2]
    ELSE default

canonicalize_provider(p) ==
    IF p = "" THEN "Unknown"
    ELSE With(strip(p), LAMBDA stripped :
         With(lower(stripped), LAMBDA lowered :
         With(replace(lowered, "www.", ""), LAMBDA key :
             dict_get(_CANON, key, stripped))))

_ALLOWED_PROVIDERS ==
    {"EveningStandard", "DailyMail", "Arseblog", "PainInTheArsenal", "ArsenalInsider"}

\* The provider texts a record can carry: a provider key or a hostname, in
\* any letter case, with or without "www." in front and blanks around it.
\* "" stands for the empty string and for None (`if not p`).
ProviderNames ==
    { "DailyMail", "dailymail", "DAILYMAIL", "dailymail.co.uk", "DailyMail.co.uk",
      "EveningStandard", "eveningstandard", "standard.co.uk", "Standard.co.uk",
      "Arseblog", "arseblog", "arseblog.com", "ARSEBLOG.COM",
      "PainInTheArsenal", "paininthearsenal.com",
      "ArsenalInsider", "arsenalinsider.com",
      "SkySports", "skysports.com", "Unknown", "" }

ProviderTexts ==
    { lead \o www \o name \o trail :
        lead \in {"", " "}, www \in {"", "www.", "WWW."},
        name \in ProviderNames, trail \in {"", " "} }

\* canonicalize_provider on the provider texts of the feeds, computed once
CanonTable ==
    [ p \in {it.provider : it \in Feeds} \cup _ALLOWED_PROVIDERS |-> canonicalize_provider(p) ]
provider_of(it) == CanonTable[it.provider]


---------------------------------------------------------------------------
(* policy.py: exact-URL dedupe                                             *)
\* the key _dedupe remembers for an item
dedupe_key(it) == lower(strip(it.url))

\* dedupe_key on the items of the feeds, computed once
DedupeKeyTable == [ u \in {it.url : it \in Feeds} |-> dedupe_key([url |-> u]) ]

RECURSIVE dedupe_loop(_, _)
dedupe_loop(its, seen) ==
    IF its = << >> THEN << >>
    ELSE LET it == Head(its)
             u  == DedupeKeyTable[it.url]
         IN  IF u = "" \/ u \in seen
             THEN dedupe_loop(Tail(its), seen)
             ELSE <<it>> \o dedupe_loop(Tail(its), seen \cup {u})

\* the loop started at the second item
dedupe_from_second(its) == dedupe_loop(IF its = << >> THEN its ELSE Tail(its), {})

_dedupe(its) == dedupe_loop(its, {})

---------------------------------------------------------------------------
(* policy.py: summary polish                                               *)
\* stands for the one character U+2026 (horizontal ellipsis)
ELLIPSIS == "~"

\* cut.rfind(" ") + 1: the last position of a space in s, 0 when none
rfind_space(s) ==
    IF Contains(s, " ")
    THEN CHOOSE i \in 1..Len(s) :
            CharAt(s, i) = " " /\ \A j \in (i + 1)..Len(s) : CharAt(s, j) # " "
    ELSE 0

\* the item after _polish_summary(it)
_polish_summary(it) ==
    LET summary == strip(it.summary)
        title   == strip(it.title)
        cut     == Slice(title, 1, 140)
        teaser  == IF Len(title) > 140
                   THEN (IF Contains(cut, " ") THEN Slice(cut, 1, rfind_space(cut) - 1)
                         ELSE cut) \o ELLIPSIS
                   ELSE title
    IN  IF Len(summary) >= 40 THEN it ELSE [it EXCEPT !.summary = teaser]

\* the item with its provider field rewritten to the canonical name
canonical_item(it) == [it EXCEPT !.provider = canonicalize_provider(it.provider)]

\* The items the engine can meet: those of the feeds, as fetched or with
\* the canonical provider name, and as polished.  What the engine derives
\* from an item alone is computed once per item, in the tables below; obj
\* is not part of what is derived.
facet(it) == [it EXCEPT !.obj = 0]
Sources == Feeds \cup {canonical_item(it) : it \in Feeds}
Universe == Sources \cup {_polish_summary(it) : it \in Sources}

---------------------------------------------------------------------------
(* policy_near_dupes.py                                                    *)
_PREVIEW_KEYS ==
    << "preview", "pre-match", "prematch", "match preview",
       "predicted", "prediction", "predicted xi", "predicted lineup",
       "lineup", "line up", "line-up", "lineups", "line-ups",
       "xi", "starting xi", "team news", "confirmed xi",
       "how to watch", "tv channel", "kick-off", "kick off", "odds" >>

_REPORT_KEYS ==
    << "report", "match report", "full-time", "full time",
       "player ratings", "ratings", "reaction", "post-match", "post match",
       "talking points", "what we learned", "five things", "5 things", "3 things" >>

_KEEP_PRIORITY ==
    << <<"ArsenalOfficial", 100>>,
       <<"EveningStandard", 90>>,
       <<"SkySports", 85>>,
       <<"DailyMail", 80>>,
       <<"Arseblog", 50>>,
       <<"PainInTheArsenal", 40>>,
       <<"ArsenalInsider", 30>> >>

_NORMALIZE_DROP_WORDS ==
    { "arsenal", "gunners", "fc", "afc", "ucl", "champions league",
      "premier league", "pl", "vs", "v", "versus",
      "match preview", "preview", "pre match", "pre-match", "prediction",
      "predicted", "predicted xi", "predicted lineup", "team news",
      "lineup", "line up", "line-up", "lineups", "line-ups", "xi",
      "starting xi", "confirmed xi", "how to watch", "tv channel",
      "kick-off", "kick off", "odds",
      "match report", "report", "full time", "full-time",
      "player ratings", "ratings", "reaction", "post match", "post-match",
      "talking points", "what we learned", "five things", "5 things", "3 things" }

\* The title lowered, punctuation turned to spaces, the boilerplate words
\* dropped.  After the punctuation step the text holds only word characters
\* and spaces, so the score/time pattern \b\d{1,2}[:\-]\d{1,2}\b matches
\* nothing, and \b\d{4}\b matches exactly the words made of four digits.
_normalized_title_key(title) ==
    With(lower(title), LAMBDA lowered :
    With(punct_to_space(lowered), LAMBDA t :
    With(split(t), LAMBDA tokens :
    With(SelectSeq(tokens, LAMBDA w : w \notin _NORMALIZE_DROP_WORDS), LAMBDA words :
    With(SelectSeq(words, LAMBDA w : ~(Len(w) = 4 /\ AllDigits(w))), LAMBDA kept :
    With(join(kept), LAMBDA k :
        IF Len(k) > 80 THEN SubSeq(k, 1, 80) ELSE k))))))

TEAM_ALIASES ==
    << <<"athletic club", "ATH">>,
       <<"athletic bilbao", "ATH">>,
       <<"ath bilbao", "ATH">>,
       <<"bilbao", "ATH">>,
       <<"nottingham forest", "NFO">>,
       <<"forest", "NFO">>,
       <<"manchester city", "MCI">>,
       <<"man city", "MCI">>,
       <<"city", "MCI">>,
       <<"manchester united", "MUN">>,
       <<"man united", "MUN">>,
       <<"man utd", "MUN">>,
       <<"chelsea", "CHE">>,
       <<"tottenham", "TOT">>,
       <<"spurs", "TOT">>,
       <<"liverpool", "LIV">>,
       <<"newcastle", "NEW">>,
       <<"west ham", "WHU">> >>

\* the number of whitespace characters of t from position p on
spaces_at(t, p) ==
    CHOOSE k \in 0..Len(t) :
        /\ \A j \in p..(p + k - 1) : IsSpace(CharAt(t, j))
        /\ ~IsSpace(CharAt(t, p + k))

\* the last position of the run of [a-z\s] characters that starts at p
\* (p - 1 when there is none)
run_end(t, p) ==
    CHOOSE e \in (p - 1)..Len(t) :
        /\ \A j \in p..e : IsLowerAlpha(CharAt(t, j)) \/ IsSpace(CharAt(t, j))
        /\ ~(IsLowerAlpha(CharAt(t, e + 1)) \/ IsSpace(CharAt(t, e + 1)))

\* the alternative of (?:vs|v|versus|at|@) that is at position c and is
\* followed by whitespace ("" when none is); punctuation is gone from the
\* text, so "@" never is
connector_at(t, c, alts) ==
    LET hit == {a \in alts : Slice(t, c, c + Len(a) - 1) = a
                             /\ IsSpace(CharAt(t, c + Len(a)))}
    IN  IF hit = {} THEN "" ELSE CHOOSE a \in hit : TRUE

\* r"\barsenal\s+(?:vs|v|versus|at|@)\s+([a-z\s]+)\b" matched at position i:
\* <<matched, group 1>>.  Both \s+ and the group are greedy; the group is
\* cut back to the last word boundary of its run.
opp_pattern_1(t, i) ==
    IF ~(Boundary(t, i - 1) /\ Slice(t, i, i + 6) = "arsenal") THEN <<FALSE, "">>
    ELSE
    With(spaces_at(t, i + 7), LAMBDA s1 :
    With(connector_at(t, i + 7 + s1, {"vs", "v", "versus", "at"}), LAMBDA conn :
    With(i + 7 + s1 + Len(conn), LAMBDA q :
    With(spaces_at(t, q), LAMBDA k :
    With({e \in (q + k)..run_end(t, q) : Boundary(t, e)}, LAMBDA ends :
        IF s1 >= 1 /\ conn # ""
        THEN IF ends # {}
             THEN <<TRUE, Slice(t, q + k, CHOOSE e \in ends : \A f \in ends : f <= e)>>
             ELSE IF k >= 2 /\ Boundary(t, q + k - 1)
             THEN <<TRUE, " ">>
             ELSE <<FALSE, "">>
        ELSE <<FALSE, "">>)))))

\* r"\b([a-z\s]+)\s+(?:vs|v|versus)\s+arsenal\b" matched at position i:
\* the greedy group runs to the last "<space>vs<spaces>arsenal" of its run
opp_pattern_2(t, i) ==
    IF ~Boundary(t, i - 1) THEN <<FALSE, "">>
    ELSE
    With({j \in (i + 1)..(run_end(t, i) + 1) :
            /\ IsSpace(CharAt(t, j))
            /\ \E conn \in {connector_at(t, j + 1, {"vs", "v", "versus"})} :
                  /\ conn # ""
                  /\ \E r \in {j + 1 + Len(conn) + spaces_at(t, j + 1 + Len(conn))} :
                        Slice(t, r, r + 6) = "arsenal" /\ Boundary(t, r + 6)},
         LAMBDA tails :
        IF tails # {}
        THEN <<TRUE, Slice(t, i, (CHOOSE j \in tails : \A f \in tails : f <= j) - 1)>>
        ELSE <<FALSE, "">>)

\* re.search: the match at the leftmost position that has one
opp_search(t) ==
    With({i \in 1..Len(t) : opp_pattern_1(t, i)[1]}, LAMBDA at1 :
        IF at1 # {}
        THEN With(CHOOSE i \in at1 : \A j \in at1 : i <= j, LAMBDA i : opp_pattern_1(t, i))
        ELSE With({i \in 1..Len(t) : opp_pattern_2(t, i)[1]}, LAMBDA at2 :
            IF at2 # {}
            THEN With(CHOOSE i \in at2 : \A j \in at2 : i <= j, LAMBDA i : opp_pattern_2(t, i))
            ELSE <<FALSE, "">>))

\* the first two tokens joined by "-"
first_two(tokens) ==
    IF Len(tokens) = 1 THEN tokens[1] ELSE tokens[1] \o "-" \o tokens[2]

\* The opponent code of a text; "" stands for None.
_normalize_opponent(text) ==
    With(lower(text), LAMBDA lowered :
    With(punct_to_space(lowered), LAMBDA t :
    With(opp_search(t), LAMBDA m :
    With(split(m[2]), LAMBDA tokens :
    With(join(tokens), LAMBDA raw :
    With({n \in 1..Len(TEAM_ALIASES) : Contains(raw, TEAM_ALIASES[n][1])}, LAMBDA inraw :
        LET \* the first of the longest aliases contained in raw
            best == CHOOSE n \in inraw :
                        \A o \in inraw :
                            \/ Len(TEAM_ALIASES[o][1]) < Len(TEAM_ALIASES[n][1])
                            \/ Len(TEAM_ALIASES[o][1]) = Len(TEAM_ALIASES[n][1]) /\ n <= o
        IN  IF ~m[1] THEN ""
            ELSE IF \E n \in 1..Len(TEAM_ALIASES) : TEAM_ALIASES[n][1] = raw
                 THEN dict_get(TEAM_ALIASES, raw, "")
            ELSE IF inraw # {} THEN TEAM_ALIASES[best][2]
            ELSE IF tokens # << >> THEN "UNK:" \o first_two(tokens)
            ELSE ""))))))

_classify(item) ==
    With(lower(item.title), LAMBDA title :
        IF has_any(title, _PREVIEW_KEYS) THEN "preview"
        ELSE IF has_any(title, _REPORT_KEYS) THEN "report"
        ELSE "other")

\* the UTC calendar day of the item, as text
day_bucket(item) ==
    With(nd_parse_dt(item.publishedUtc), LAMBDA dt : strftime_ymd(dt - (dt % 86400)))

_bucket_key(item) ==
    With(_classify(item), LAMBDA cls :
    With(IF cls \in {"preview", "report"}
         THEN With(item.title \o " " \o item.summary \o " " \o item.url,
                   _normalize_opponent)
         ELSE "", LAMBDA opp :
        IF opp # ""
        THEN <<cls \o ":" \o opp, day_bucket(item)>>
        ELSE <<_normalized_title_key(item.title), day_bucket(item)>>))

_provider_priority(p) == dict_get(_KEEP_PRIORITY, p, 10)

\* _classify and _bucket_key on the items of the universe, computed once
ClassifyTable == [ it \in Universe |-> _classify(it) ]
BucketKeyTable == [ it \in Universe |-> _bucket_key(it) ]

\* a < b for tuples of integers of one length (Python's tuple order)
RECURSIVE tuple_lt(_, _)
tuple_lt(a, b) ==
    IF a = << >> THEN FALSE
    ELSE IF a[1] # b[1] THEN a[1] < b[1]
    ELSE tuple_lt(Tail(a), Tail(b))

\* the key collapse_near_dupes ranks the members of a cluster by:
\* provider priority, image presence, recency, shorter title
score(it) ==
    << _provider_priority(it.provider),
       IF it.imageUrl # "" THEN 1 ELSE 0,
       nd_parse_dt(it.publishedUtc),
       -Len(it.title) >>

\* score on the items of the universe, computed once
ScoreTable == [ it \in Universe |-> score(it) ]

\* max() with the key left out of the comparison: the first member
first_member(group) == group[1]

\* max(group, key=score): the first member no other member outranks
max_by_score(group) ==
    LET best == {i \in 1..Len(group) :
                    \A j \in 1..Len(group) :
                        ~tuple_lt(ScoreTable[facet(group[i])], ScoreTable[facet(group[j])])}
    IN  group[CHOOSE i \in best : \A j \in best : i <= j]

\* the class most members of the cluster have; on a tie the first of
\* preview, report, other (the insertion order of the counts dict)
majority_class(group) ==
    LET order == <<"preview", "report", "other">>
        n(c)  == Cardinality({i \in 1..Len(group) : ClassifyTable[facet(group[i])] = c})
        best  == {k \in 1..3 : \A l \in 1..3 : n(order[l]) <= n(order[k])}
    IN  order[CHOOSE k \in best : \A l \in best : k <= l]

\* the member of a cluster that is kept
keep_of(group) ==
    IF Len(group) = 1 THEN group[1]
    ELSE With(majority_class(group), LAMBDA cls :
         With(IF cls = "preview" THEN "EveningStandard"
              ELSE IF cls = "report" THEN "ArsenalOfficial"
              ELSE "", LAMBDA pref :
         With(SelectSeq(group, LAMBDA x : pref # "" /\ x.provider = pref), LAMBDA candidates :
             IF candidates # << >> THEN max_by_score(candidates)
             ELSE max_by_score(group))))

RECURSIVE bucket_keys(_)
bucket_keys(its) ==
    IF its = << >> THEN << >>
    ELSE <<BucketKeyTable[facet(Head(its))]>> \o bucket_keys(Tail(its))

\* clusters told apart by the day alone
RECURSIVE cluster_by_day(_, _, _)
cluster_by_day(its, keys, k) ==
    IF its = << >> THEN << >>
    ELSE (IF Head(keys)[2] = k[2] THEN <<Head(its)>> ELSE << >>)
         \o cluster_by_day(Tail(its), Tail(keys), k)

\* the members of the cluster of key k, in input order
RECURSIVE cluster(_, _, _)
cluster(its, keys, k) ==
    IF its = << >> THEN << >>
    ELSE (IF Head(keys) = k THEN <<Head(its)>> ELSE << >>)
         \o cluster(Tail(its), Tail(keys), k)

\* a survivor appended for every item instead of every cluster
RECURSIVE collapse_each_item(_, _, _)
collapse_each_item(its, keys, i) ==
    IF i > Len(its) THEN << >>
    ELSE <<With(cluster(its, keys, keys[i]), keep_of)>>
         \o collapse_each_item(its, keys, i + 1)

\* one survivor per cluster, the clusters in the order their first member
\* has in the input (the insertion order of the clusters dict)
RECURSIVE collapse_from(_, _, _)
collapse_from(its, keys, i) ==
    IF i > Len(its) THEN << >>
    ELSE (IF \E j \in 1..(i - 1) : keys[j] = keys[i]
          THEN << >>
          ELSE <<With(cluster(its, keys, keys[i]), keep_of)>>)
         \o collapse_from(its, keys, i + 1)

collapse_near_dupes(its) ==
    IF its = << >> THEN its
    ELSE With(bucket_keys(its), LAMBDA keys : collapse_from(its, keys, 1))

---------------------------------------------------------------------------
(* policy.py: exclusion and relevance                                      *)
_WOMEN_U19_KEYS ==
    << "women", "wsl", "fa wsl", "wfc", "u19", "under-19", "under 19" >>

\* the under-18 and under-21 sides excluded too
_is_women_or_youth(txt) ==
    With(lower(txt), LAMBDA t : has_any(t, _WOMEN_U19_KEYS \o <<"u18", "u21">>))

_is_women_or_u19(txt) == With(lower(txt), LAMBDA t : has_any(t, _WOMEN_U19_KEYS))

_ARS_KEYWORDS ==
    << "arsenal", "gunners", "arteta",
       "odegaard", "saka", "saliba", "trossard", "rice",
       "white", "havertz", "jesus", "raya", "eze", "mosquera",
       "emirates stadium", "north london derby" >>

_text_has_arsenal(text) ==
    With(lower(text), LAMBDA t :
        Contains(t, "arsenal") \/ Contains(t, "gunners") \/ has_any(t, _ARS_KEYWORDS))

\* the first position at or after p of a character of the set cs, Len + 1
\* when there is none
first_of(s, p, cs) ==
    CHOOSE i \in p..(Len(s) + 1) :
        /\ i = Len(s) + 1 \/ CharAt(s, i) \in cs
        /\ \A j \in p..(i - 1) : CharAt(s, j) \notin cs

\* urlparse(url): <<netloc, path>>.  The scheme is the text before the first
\* ":" when it is made of scheme characters; the netloc follows "//" and ends
\* at the first of "/", "?", "#"; the path ends at the first of "?", "#".
urlparse(url) ==
    With(Find(url, ":"), LAMBDA colon :
    With(IF colon > 1
            /\ \A j \in 1..(colon - 1) :
                  LET c == CharAt(url, j)
                  IN  (IsUpper(c) \/ IsLowerAlpha(c) \/ IsDigit(c)
                       \/ c \in {"+", "-", "."})
            /\ ~IsDigit(CharAt(url, 1))
         THEN colon ELSE 0, LAMBDA scheme :
    With(Slice(url, scheme + 1, scheme + 2) = "//", LAMBDA hasnet :
    With(IF hasnet THEN scheme + 3 ELSE scheme + 1, LAMBDA nstart :
    With(IF hasnet THEN first_of(url, nstart, {"/", "?", "#"}) ELSE nstart, LAMBDA nend :
    With(first_of(url, nend, {"?", "#"}), LAMBDA pend :
        << Slice(url, nstart, nend - 1), Slice(url, nend, pend - 1) >>))))))

\* the football section of the two papers taken for the Arsenal section
_is_about_football(item) ==
    With(item.summary \o " " \o "", LAMBDA summary :
    With(urlparse(item.url), LAMBDA parsed :
    With(lower(parsed[1]), LAMBDA netloc :
    With(replace(netloc, "www.", ""), LAMBDA host :
    With(lower(parsed[2]), LAMBDA path :
    With(lower(item.url), LAMBDA url :
        \/ _text_has_arsenal(item.title)
        \/ _text_has_arsenal(summary)
        \/ Contains(host, "dailymail.co.uk") /\ Contains(path, "/sport/football")
        \/ Contains(host, "standard.co.uk") /\ Contains(path, "/sport/football")
        \/ HasWord(url, "arsenal")))))))

_is_about_arsenal(item) ==
    With(item.summary \o " " \o "", LAMBDA summary :
    With(urlparse(item.url), LAMBDA parsed :
    With(lower(parsed[1]), LAMBDA netloc :
    With(replace(netloc, "www.", ""), LAMBDA host :
    With(lower(parsed[2]), LAMBDA path :
    With(lower(item.url), LAMBDA url :
        \/ _text_has_arsenal(item.title)
        \/ _text_has_arsenal(summary)
        \/ Contains(host, "dailymail.co.uk") /\ Contains(path, "/sport/football/arsenal")
        \/ Contains(host, "standard.co.uk") /\ Contains(path, "/sport/football/arsenal")
        \/ HasWord(url, "arsenal")))))))

---------------------------------------------------------------------------
(* policy.py: kind classification.  A pattern is a sequence of elements:   *)
(*   <<"lit", text>>   the literal text                                    *)
(*   <<"b">>           \b                                                  *)
(*   <<"opt", texts>>  one of the texts, or nothing  ([- ]?  (s)?)         *)
(*   <<"one", texts>>  one of the texts  ([-/])                            *)
(*   <<"s*">>          \s*                                                 *)
(*   <<"any">>         .*                                                  *)
B == <<"b">>
L(text) == <<"lit", text>>
W(text) == <<B, L(text), B>>

\* the pattern p matches the text t from position i on
RECURSIVE re_match(_, _, _)
re_match(p, t, i) ==
    IF p = << >> THEN TRUE
    ELSE LET e == Head(p)
             r == Tail(p)
         IN  IF e[1] = "lit"
             THEN Slice(t, i, i + Len(e[2]) - 1) = e[2] /\ re_match(r, t, i + Len(e[2]))
             ELSE IF e[1] = "b"
             THEN Boundary(t, i - 1) /\ re_match(r, t, i)
             ELSE IF e[1] = "opt"
             THEN \/ \E a \in e[2] : Slice(t, i, i + Len(a) - 1) = a /\ re_match(r, t, i + Len(a))
                  \/ re_match(r, t, i)
             ELSE IF e[1] = "one"
             THEN \E a \in e[2] : Slice(t, i, i + Len(a) - 1) = a /\ re_match(r, t, i + Len(a))
             ELSE IF e[1] = "s*"
             THEN \E k \in 0..spaces_at(t, i) : re_match(r, t, i + k)
             ELSE \E k \in 0..(Len(t) - i + 1) : re_match(r, t, i + k)

\* re.search(p, t)
re_search(p, t) == \E i \in 1..(Len(t) + 1) : re_match(p, t, i)

_PRE_PATTERNS ==
    << W("preview"),
       <<B, L("predicted"), <<"s*">>, L("line"), <<"opt", {"-", " "}>>, L("up"), B>>,
       <<B, L("line"), <<"opt", {"-", " "}>>, L("up"), <<"opt", {"s"}>>, B>>,
       <<B, L("probable"), <<"s*">>, L("xi"), B>>,
       W("team news"),
       <<B, L("how "), <<"any">>, L(" could line up"), B>>,
       <<B, L("three ways "), <<"any">>, L(" could line up"), B>>,
       W("talking points"), W("keys to"), W("what to expect") >>

_POST_PATTERNS ==
    << W("match report"), W("player ratings"),
       <<B, L("post"), <<"opt", {"-", " "}>>, L("match"), B>>,
       W("what we learned"), W("takeaways"), W("reaction"), W("analysis") >>

_LIVE_PATTERNS ==
    << W("live blog"), W("liveblog"), W("as it happened"),
       <<L("/live"), <<"one", {"-", "/"}>> >> >>

_HOWTO_PATTERNS ==
    << W("how to watch"), W("what channel"), W("tv channel"), W("live stream"),
       W("stream") >>

_GALLERY_PATTERNS ==
    << W("gallery"), W("in pictures"), W("photos:"), <<L("/gallery/")>> >>

_matches_any(patterns, text) ==
    With(lower(text), LAMBDA t :
        \E n \in 1..Len(patterns) : re_search(patterns[n], t))

\* the match kinds tested before the banned kinds
_classify_kind_match_first(it) ==
    With(it.title \o " " \o it.summary \o " " \o it.url, LAMBDA s :
        IF _matches_any(_POST_PATTERNS, s) THEN "postmatch"
        ELSE IF _matches_any(_PRE_PATTERNS, s) THEN "prematch"
        ELSE IF _matches_any(_LIVE_PATTERNS, s) THEN "liveblog"
        ELSE IF _matches_any(_HOWTO_PATTERNS, s) THEN "howto"
        ELSE IF _matches_any(_GALLERY_PATTERNS, s) THEN "gallery"
        ELSE "")

\* "" stands for None
_classify_kind(it) ==
    With(it.title \o " " \o it.summary \o " " \o it.url, LAMBDA s :
        IF _matches_any(_LIVE_PATTERNS, s) THEN "liveblog"
        ELSE IF _matches_any(_HOWTO_PATTERNS, s) THEN "howto"
        ELSE IF _matches_any(_GALLERY_PATTERNS, s) THEN "gallery"
        ELSE IF _matches_any(_POST_PATTERNS, s) THEN "postmatch"
        ELSE IF _matches_any(_PRE_PATTERNS, s) THEN "prematch"
        ELSE "")

---------------------------------------------------------------------------
(* policy.py: score, declump, sort, the core policy                         *)
_score(it) ==
    LET prov == provider_of(it)
        official_boost == IF prov \in {"EveningStandard", "DailyMail"} THEN 10 ELSE 0
        has_img == IF it.imageUrl # "" THEN 1 ELSE 0
    IN  official_boost * 100 + has_img

\* int(hashlib.sha1(url).hexdigest()[:2], 16) % 30, for the urls of the feed
SHA1_OFFSET ==
    << <<"https://standard.co.uk/a1", 14>>,
       <<"https://standard.co.uk/a2", 0>>,
       <<"https://arseblog.com/c1", 0>>,
       <<"https://arseblog.com/c2", 9>>,
       <<"https://arseblog.com/saka", 7>>,
       <<"http://arseblog.com/saka/", 21>>,
       <<"HTTPS://ARSEBLOG.COM/saka", 20>>,
       <<"https://arsenalinsider.com/d1", 6>>,
       <<"https://arsenal.com/r1", 22>>,
       <<"https://paininthearsenal.com/r2", 26>>,
       <<"https://arseblog.com/s1", 20>>,
       <<"https://arsenalinsider.com/s1", 15>>,
       <<"https://arseblog.com/s3", 29>>,
       <<"https://arseblog.com/s5", 4>>,
       <<"https://arsenalinsider.com/s2", 17>>,
       <<"https://arseblog.com/s6", 27>>,
       <<"https://arseblog.com/s7", 4>>,
       <<"https://arsenalinsider.com/s3", 9>>,
       <<"https://paininthearsenal.com/f1", 28>>,
       <<"https://standard.co.uk/f2", 17>>,
       <<"https://arseblog.com/gallery/f3", 21>>,
       <<"https://arseblog.com/f4", 18>>,
       <<"https://arsenalinsider.com/f5", 5>>,
       <<"https://paininthearsenal.com/f6", 21>>,
       <<"https://www.dailymail.co.uk/sport/football/article-7", 18>>,
       <<"https://www.dailymail.co.uk/sport/football/arsenal/article-8", 28>>,
       <<"https://arsenalinsider.com/f9", 2>>,
       <<"https://arseblog.com/f10", 16>>,
       <<"https://paininthearsenal.com/f11", 23>>,
       <<"https://standard.co.uk/f12", 6>>,
       <<"https://arseblog.com/f13", 12>>,
       <<"", 8>> >>

sha1_offset(url) == dict_get(SHA1_OFFSET, url, 0)

\* the bucket of _declump_same_minute an item falls in ("" when its
\* publishedUtc does not parse: the item is skipped)
minute_key(it) ==
    With(_parse_dt(it.publishedUtc), LAMBDA dt :
        IF dt = NoDate THEN ""
        ELSE canonicalize_provider(it.provider) \o "|" \o strftime_ymdhm(dt))

\* minute_key on the items of the universe, computed once
MinuteKeyTable == [ it \in Universe |-> minute_key(it) ]

\* lower() on the titles, ids and urls of the feeds, computed once
LowerTable ==
    [ t \in {it.title : it \in Feeds} \cup {it.id : it \in Feeds} \cup {it.url : it \in Feeds}
        |-> lower(t) ]

\* the list after _declump_same_minute(its): the items of a bucket with
\* more than one member get the start of their minute plus the offset
\* derived from their url
RECURSIVE minute_keys(_)
minute_keys(its) ==
    IF its = << >> THEN << >>
    ELSE <<MinuteKeyTable[facet(Head(its))]>> \o minute_keys(Tail(its))

_declump_same_minute(its) ==
    With(minute_keys(its), LAMBDA keys :
        [i \in 1..Len(its) |->
            IF keys[i] # "" /\ \E j \in 1..Len(its) : j # i /\ keys[j] = keys[i]
            THEN With(_parse_dt(its[i].publishedUtc), LAMBDA base_dt :
                 With((base_dt - (base_dt % 60)) + sha1_offset(its[i].url), LAMBDA dt :
                     [its[i] EXCEPT !.publishedUtc = _to_utc_iso(dt)]))
            ELSE its[i]])

\* the sort key of apply_policy_core
_tie_key(x) ==
    << _iso(x.publishedUtc),
       _score(x),
       LowerTable[x.title],
       LowerTable[IF x.id # "" THEN x.id ELSE x.url] >>

\* a < b for two sort keys (Python's tuple order)
tie_key_lt(a, b) ==
    IF a[1] # b[1] THEN str_lt(a[1], b[1])
    ELSE IF a[2] # b[2] THEN a[2] < b[2]
    ELSE IF a[3] # b[3] THEN str_lt(a[3], b[3])
    ELSE str_lt(a[4], b[4])

\* list.sort(key=_tie_key, reverse=True): descending, and stable (items
\* with equal keys keep the order they had)
RECURSIVE tie_keys(_)
tie_keys(its) ==
    IF its = << >> THEN << >> ELSE <<_tie_key(Head(its))>> \o tie_keys(Tail(its))

\* the positions 1..n in the order the sort leaves their items in: the
\* position of i is one more than the number of items that sort before it
RECURSIVE sort_ranks(_, _)
sort_ranks(keys, i) ==
    IF i > Len(keys) THEN << >>
    ELSE << 1 + Cardinality({j \in 1..Len(keys) : tie_key_lt(keys[i], keys[j])})
              + Cardinality({j \in 1..(i - 1) : keys[j] = keys[i]}) >>
         \o sort_ranks(keys, i + 1)

sort_desc(its) ==
    With(tie_keys(its), LAMBDA keys :
    With(sort_ranks(keys, 1), LAMBDA ranks :
        [r \in 1..Len(its) |-> its[CHOOSE i \in 1..Len(its) : ranks[i] = r]]))

\* the loop body without the pre-match rule
passes_policy_without_prematch_rule(it, exclude_women) ==
    With(canonicalize_provider(it.provider), LAMBDA prov :
        /\ prov \in _ALLOWED_PROVIDERS
        /\ ~(exclude_women /\ (_is_women_or_u19(it.title) \/ _is_women_or_u19(it.summary)))
        /\ ~(prov \in {"DailyMail", "EveningStandard"} /\ ~_is_about_arsenal(it))
        /\ With(_classify_kind(it), LAMBDA kind :
              /\ kind \notin {"liveblog", "howto", "gallery"}
              /\ ~(kind = "postmatch" /\ prov # "PainInTheArsenal")))

\* the loop body of apply_policy_core up to the summary polish: the item
\* is appended to `filtered`
passes_policy(it, exclude_women) ==
    With(canonicalize_provider(it.provider), LAMBDA prov :
        /\ prov \in _ALLOWED_PROVIDERS
        /\ ~(exclude_women /\ (_is_women_or_u19(it.title) \/ _is_women_or_u19(it.summary)))
        /\ ~(prov \in {"DailyMail", "EveningStandard"} /\ ~_is_about_arsenal(it))
        /\ With(_classify_kind(it), LAMBDA kind :
              /\ kind \notin {"liveblog", "howto", "gallery"}
              /\ ~(kind = "prematch" /\ prov # "EveningStandard")
              /\ ~(kind = "postmatch" /\ prov # "PainInTheArsenal")))

\* passes_policy on the items of the feeds, computed once
PassesTable == [ x \in Sources \X BOOLEAN |-> passes_policy(x[1], x[2]) ]

\* `filtered` at the end of the loop: the passing items, polished
RECURSIVE filter_and_polish(_, _)
filter_and_polish(its, exclude_women) ==
    IF its = << >> THEN << >>
    ELSE (IF PassesTable[<<facet(Head(its)), exclude_women>>]
          THEN <<_polish_summary(Head(its))>> ELSE << >>)
         \o filter_and_polish(Tail(its), exclude_women)

\* the list apply_policy_core returns
apply_policy_core(its, exclude_women) ==
    With(filter_and_polish(its, exclude_women), LAMBDA filtered :
    With(_dedupe(filtered), LAMBDA deduped :
    With(collapse_near_dupes(deduped), LAMBDA collapsed :
    With(_declump_same_minute(collapsed), LAMBDA declumped :
        sort_desc(declumped)))))

\* the caller's list after apply_policy_core(its) returned out: the dicts
\* are shared, so the polish and the declump show in it
input_after_policy(its, exclude_women, out) ==
        [i \in 1..Len(its) |->
            IF \E k \in 1..Len(out) : out[k].obj = its[i].obj
            THEN out[CHOOSE k \in 1..Len(out) : out[k].obj = its[i].obj]
            ELSE IF PassesTable[<<facet(its[i]), exclude_women>>]
            THEN _polish_summary(its[i])
            ELSE its[i]]

---------------------------------------------------------------------------
(* policy.py: per-page caps.  A dict is a function on its keys.            *)
_PROVIDER_CAPS_DEFAULT ==
    [ p \in _ALLOWED_PROVIDERS |->
        IF p \in {"EveningStandard", "DailyMail"} THEN 4 ELSE 3 ]

\* d.get(k, default)
get(d, k, default) == IF k \in DOMAIN d THEN d[k] ELSE default

\* {**a, **b}
merge(a, b) ==
    [ k \in (DOMAIN a) \cup (DOMAIN b) |-> IF k \in DOMAIN b THEN b[k] ELSE a[k] ]

\* the running count left as it was
bump_none(counts, prov) == counts

\* counts[prov] = counts.get(prov, 0) + 1
bump(counts, prov) ==
    [ k \in (DOMAIN counts) \cup {prov} |->
        IF k = prov THEN get(counts, prov, 0) + 1 ELSE counts[k] ]

\* The while loop of _fill_with_limit from index i on (1-based):
\* <<chosen, counts>> when it ends.
RECURSIVE fill_loop(_, _, _, _, _, _, _)
fill_loop(sorted_items, i, size, counts, limit_for, selected_idx, chosen) ==
    IF ~(Len(chosen) + Cardinality(selected_idx) < size /\ i <= Len(sorted_items))
    THEN <<chosen, counts>>
    ELSE IF i \in selected_idx
    THEN fill_loop(sorted_items, i + 1, size, counts, limit_for, selected_idx, chosen)
    ELSE LET prov  == provider_of(sorted_items[i])
             limit == get(limit_for, prov, 2)
         IN  IF get(counts, prov, 0) < limit
             THEN fill_loop(sorted_items, i + 1, size, bump(counts, prov),
                            limit_for, selected_idx, Append(chosen, i))
             ELSE fill_loop(sorted_items, i + 1, size, counts, limit_for,
                            selected_idx, chosen)

_fill_with_limit(sorted_items, start_index, size, counts, limit_for, selected_idx) ==
    fill_loop(sorted_items, start_index, size, counts, limit_for, selected_idx, << >>)

\* the final top-up left out
top_up_skipped(n, i, size, selected_idx) == selected_idx

\* the final unconditional top-up: the selection when the loop ends
RECURSIVE top_up(_, _, _, _)
top_up(n, i, size, selected_idx) ==
    IF ~(Cardinality(selected_idx) < size /\ i <= n) THEN selected_idx
    ELSE top_up(n, i + 1, size, selected_idx \cup {i})

\* the selection from the highest index down
RECURSIVE sorted_reverse(_)
sorted_reverse(S) ==
    IF S = {} THEN << >>
    ELSE LET m == CHOOSE x \in S : \A y \in S : x >= y
         IN  <<m>> \o sorted_reverse(S \ {m})

\* sorted(selected_idx) as a sequence
RECURSIVE sorted(_)
sorted(S) ==
    IF S = {} THEN << >>
    ELSE LET m == CHOOSE x \in S : \A y \in S : x <= y
         IN  <<m>> \o sorted(S \ {m})

\* [sorted_items[i] for i in sorted(selected_idx)][:size]
emit(sorted_items, selected_idx, size) ==
    LET idx == sorted(selected_idx)
    IN  [ k \in 1..(IF Len(idx) < size THEN Len(idx) ELSE size) |-> sorted_items[idx[k]] ]

\* The indices page_with_caps selects (1-based), before the final slice.
page_selection(sorted_items, pg, size, caps_arg) ==
    LET limits == merge(_PROVIDER_CAPS_DEFAULT, caps_arg)
        zero   == IF (pg - 1) * size > 0 THEN (pg - 1) * size ELSE 0
        start_index == zero + 1
        n      == Len(sorted_items)
        p1     == _fill_with_limit(sorted_items, start_index, size, << >>, limits, {})
        sel1   == Range(p1[1])
        soft1  == [k \in DOMAIN limits |-> limits[k] + 1]
        p2     == _fill_with_limit(sorted_items, start_index, size, p1[2], soft1, sel1)
        sel2   == sel1 \cup Range(p2[1])
        soft2  == [k \in DOMAIN limits |-> limits[k] + 2]
        p3     == _fill_with_limit(sorted_items, start_index, size, p2[2], soft2, sel2)
        sel3   == sel2 \cup Range(p3[1])
    IN  IF start_index > n THEN {}
        ELSE IF Cardinality(sel1) >= size THEN sel1
        ELSE IF Cardinality(sel2) >= size THEN sel2
        ELSE IF Cardinality(sel3) >= size THEN sel3
        ELSE top_up(n, start_index, size, sel3)

page_with_caps(sorted_items, pg, size, caps_arg) ==
    emit(sorted_items, page_selection(sorted_items, pg, size, caps_arg), size)

---------------------------------------------------------------------------
(* main.py: the /news endpoint, from the end of its fetch phase on.  An    *)
(* article is a record of the fields of the fetched dict.  A compiled      *)
(* pattern \b(a|b|...)\b is the sequence of its alternatives, each between  *)
(* word boundaries; re.I is matching on the text in lower case.            *)
Article(id, source, title, url, publishedUtc) ==
    [ id |-> id, source |-> source, title |-> title, summary |-> "",
      url |-> url, publishedUtc |-> publishedUtc ]

NW_AB_1 == Article("n-01", "Arseblog", "Arteta pleased with the squad depth",
                   "https://arseblog.com/n1", "2024-03-04T12:00:00Z")
NW_AB_2 == Article("n-02", "Arseblog", "Saka back in full training",
                   "https://arseblog.com/n2", "2024-03-04T11:00:00Z")
NW_AB_3 == Article("n-03", "Arseblog", "Rice on his first season",
                   "https://arseblog.com/n3", "2024-03-04T10:00:00Z")
NW_AB_4 == Article("n-04", "Arseblog", "Academy round-up",
                   "https://arseblog.com/n4", "2024-03-04T09:00:00Z")
NW_AB_5 == Article("n-05", "Arseblog", "Loan watch",
                   "https://arseblog.com/n5", "2024-03-04T08:00:00Z")
NW_AB_6 == Article("n-06", "Arseblog", "Odegaard signs new contract",
                   "https://arseblog.com/n6", "2024-03-04T07:00:00Z")
NW_AB_7 == Article("n-07", "Arseblog", "Transfer round-up",
                   "https://arseblog.com/n7", "2024-03-04T06:00:00Z")
NW_AB_DUP == Article("n-08", "Arseblog", "Arteta pleased with the squad depth",
                   "http://ARSEBLOG.com/n1/", "2024-03-04T12:00:00Z")
NW_AB_PREVIEW == Article("n-09", "Arseblog", "Arsenal v Chelsea preview",
                   "https://arseblog.com/n9", "2024-03-04T05:00:00Z")
NW_ST_PREVIEW == Article("n-10", "TheStandard", "Arsenal vs Chelsea: preview and team news",
                   "https://standard.co.uk/n10", "2024-03-04T04:00:00Z")
NW_AI_RIVAL == Article("n-11", "ArsenalInsider", "Chelsea close in on striker",
                   "https://arsenalinsider.com/n11", "2024-03-04T03:00:00Z")

\* the articles of the providers' feeds, in the order the fetch phase
\* appends them
NewsFeed ==
    << NW_AB_1, NW_AB_2, NW_AB_3, NW_AB_4, NW_AB_5, NW_AB_6, NW_AB_7, NW_AB_DUP,
       NW_AB_PREVIEW, NW_ST_PREVIEW, NW_AI_RIVAL >>

\* datetime.fromisoformat(...).astimezone(utc), the epoch when the text is
\* absent or no date
_to_dt(iso_str) ==
    IF iso_str = "" THEN 0
    ELSE IF IsIso(iso_str) THEN du_parse_utc(iso_str) ELSE 0

\* "^" stands for the one character U+2019 (right single quotation mark)
_WOMEN_KEYS ==
    << "women", "womens", "women^s", "women's", "awfc", "wfc", "fa wsl", "wsl",
       "barclays women's", "women's super league",
       "/women/", "/wsl/", "/awfc/", "/women-", "/womens-", "women-", "womens-",
       "-women/", "-wsl/", "-awfc/",
       "arsenal women", "arsenal-women", "arsenalwomen", "mariona", "miedema",
       "mead", "eidevall", "katie mccabe" >>

_looks_like_womens(a) ==
    With(lower(a.title), LAMBDA t :
    With(lower(a.summary), LAMBDA sm :
    With(lower(a.url), LAMBDA u :
        \E i \in 1..Len(_WOMEN_KEYS) :
            \/ Contains(t, _WOMEN_KEYS[i])
            \/ Contains(sm, _WOMEN_KEYS[i])
            \/ Contains(u, _WOMEN_KEYS[i]))))

\* _TEAM_ALIASES["ARS"]: the aliases of the default team
_aliases_for == << "Arsenal", "Gunners", "AFC", "Arsenal FC" >>

ALLOWED_OFFICIAL == {"ArsenalOfficial", "SkySports", "TheStandard", "TheTimes", "DailyMail"}
ALLOWED_FAN == {"Arseblog", "PainInTheArsenal", "ArsenalInsider"}

HIGHLIGHT_PAT ==
    << <<B, L("highlight"), <<"opt", {"s"}>>, B>>,
       <<B, L("full"), <<"opt", {"-", " "}>>, L("match"), B>>,
       W("replay"), W("gallery"),
       <<B, L("photo"), <<"opt", {"s"}>>, B>> >>

LIVE_PAT ==
    << <<B, L("live"), <<"opt", {" blog"}>>, B>>,
       <<B, L("minute"), <<"opt", {"-", " "}>>, L("by"), <<"opt", {"-", " "}>>,
         L("minute"), B>>,
       W("as it happened"), W("recap") >>

CELEB_PAT ==
    << W("tvshowbiz"), W("celebrity"), W("showbiz"), W("hollywood"),
       W("love island"), W("sudeikis") >>

MATCH_REPORT_PAT ==
    << <<B, L("match"), <<"s*">>, L("report"), B>>,
       <<B, L("player rating"), <<"opt", {"s"}>>, B>> >>

PLAYER_RATINGS_PAT == << <<B, L("player rating"), <<"opt", {"s"}>>, B>> >>

PREVIEW_PAT ==
    << W("preview"), W("prediction"),
       <<B, L("line"), <<"opt", {"-", " "}>>, L("up"), <<"opt", {"s"}>>, B>> >>

PRESSER_PAT ==
    << <<B, L("press"), <<"opt", {" "}>>, L("conference"), B>>, W("every word") >>

_OPPONENTS ==
    << "nottingham forest", "forest", "manchester city", "man city",
       "manchester united", "man united", "tottenham", "spurs", "chelsea",
       "liverpool", "brighton", "newcastle", "aston villa", "west ham",
       "everton", "brentford", "bournemouth", "wolves", "fulham",
       "crystal palace", "leicester", "leeds", "southampton", "luton" >>

\* bool(pat.search(text or ""))
_contains(text, pat) ==
    With(lower(text), LAMBDA t : \E n \in 1..Len(pat) : re_search(pat[n], t))

\* OPPONENT_PAT.search(t): the positions where an opponent's name stands
\* between word boundaries, and the name found there (the first in the
\* order of the alternatives)
opponent_at(t, i) ==
    {n \in 1..Len(_OPPONENTS) :
        /\ Slice(t, i, i + Len(_OPPONENTS[n]) - 1) = _OPPONENTS[n]
        /\ Boundary(t, i - 1)
        /\ Boundary(t, i + Len(_OPPONENTS[n]) - 1)}

\* the position of the leftmost match, 0 when there is none
opponent_search(t) ==
    With({i \in 1..Len(t) : opponent_at(t, i) # {}}, LAMBDA at :
        IF at = {} THEN 0 ELSE CHOOSE i \in at : \A j \in at : i <= j)

_norm_url(u) ==
    With(urlparse(u), LAMBDA p :
        IF p[1] # ""
        THEN With(CHOOSE e \in 0..Len(p[2]) :
                     /\ \A j \in (e + 1)..Len(p[2]) : CharAt(p[2], j) = "/"
                     /\ e > 0 => CharAt(p[2], e) # "/",
                  LAMBDA e : lower(p[1]) \o Slice(p[2], 1, e))
        ELSE u)

_article_kind(a) ==
    With(a.title \o " " \o a.summary, LAMBDA t :
        IF _contains(t, PLAYER_RATINGS_PAT) THEN "player_ratings"
        ELSE IF _contains(t, MATCH_REPORT_PAT) THEN "match_report"
        ELSE IF _contains(t, PREVIEW_PAT) THEN "preview"
        ELSE IF _contains(t, PRESSER_PAT) THEN "presser"
        ELSE "general")

\* "" stands for None
_opponent_key(a) ==
    With(lower(a.title \o " " \o a.summary), LAMBDA t :
    With(opponent_search(t), LAMBDA i :
        IF i = 0 THEN ""
        ELSE With(opponent_at(t, i), LAMBDA found :
                 _OPPONENTS[CHOOSE n \in found : \A o \in found : n <= o])))

_is_highlight_or_live(a) ==
    With(a.title \o " " \o a.summary \o " " \o a.url, LAMBDA t :
        _contains(t, HIGHLIGHT_PAT) \/ _contains(t, LIVE_PAT))

_is_celeb(a) ==
    With(a.title \o " " \o a.summary \o " " \o a.url, LAMBDA t : _contains(t, CELEB_PAT))

_is_opponent_centric(a, team_aliases) ==
    With(lower(a.title \o " " \o a.summary), LAMBDA t :
        IF \E k \in 1..Len(team_aliases) : HasWord(t, lower(team_aliases[k]))
        THEN FALSE
        ELSE opponent_search(t) # 0)

SOURCE_PRIORITY ==
    << "ArsenalOfficial", "SkySports", "TheStandard", "TheTimes", "DailyMail",
       "Arseblog", "PainInTheArsenal", "ArsenalInsider" >>

\* SOURCE_PRIORITY.index(s), len(SOURCE_PRIORITY) for a source not in it
_source_rank(src) ==
    IF \E k \in 1..Len(SOURCE_PRIORITY) : SOURCE_PRIORITY[k] = src
    THEN (CHOOSE k \in 1..Len(SOURCE_PRIORITY) : SOURCE_PRIORITY[k] = src) - 1
    ELSE Len(SOURCE_PRIORITY)

_drop(a) ==
    \/ a.title = "" \/ a.url = ""
    \/ _looks_like_womens(a)
    \/ _is_highlight_or_live(a)
    \/ _is_celeb(a)
    \/ _is_opponent_centric(a, _aliases_for)

\* what the quality filter derives from an article alone, computed once:
\* allow-listed and not dropped, the normalized url, the kind, the opponent
\* key, the instant, the source rank
NewsTable ==
    [ a \in Range(NewsFeed) |->
        [ keep  |-> a.source \in ALLOWED_OFFICIAL \cup ALLOWED_FAN /\ ~_drop(a),
          key   |-> _norm_url(a.url),
          kind  |-> _article_kind(a),
          opp   |-> _opponent_key(a),
          dt    |-> _to_dt(a.publishedUtc),
          rank  |-> _source_rank(a.source) ] ]

\* steps 0 and 1: the allow-listed articles that are not dropped
RECURSIVE news_filtered(_)
news_filtered(its) ==
    IF its = << >> THEN << >>
    ELSE (IF NewsTable[Head(its)].keep THEN <<Head(its)>> ELSE << >>)
         \o news_filtered(Tail(its))

\* step 2: de-dup by normalized URL
RECURSIVE news_deduped(_, _)
news_deduped(its, seen_keys) ==
    IF its = << >> THEN << >>
    ELSE With(NewsTable[Head(its)].key, LAMBDA key :
             IF key = "" \/ key \in seen_keys
             THEN news_deduped(Tail(its), seen_keys)
             ELSE With(seen_keys \cup {key}, LAMBDA seen :
                      <<Head(its)>> \o news_deduped(Tail(its), seen)))

\* prefer higher source priority; tie-break newer time
_better(a, b) ==
    IF NewsTable[a].rank # NewsTable[b].rank
    THEN NewsTable[a].rank < NewsTable[b].rank
    ELSE NewsTable[a].dt > NewsTable[b].dt

\* the key of kept_by_match for an article, << >> when its kind is not
\* de-duplicated per match
match_key(a) ==
    IF NewsTable[a].kind \in {"match_report", "preview", "player_ratings"}
    THEN << IF NewsTable[a].opp # "" THEN NewsTable[a].opp ELSE "_none_",
            NewsTable[a].kind >>
    ELSE << >>

\* step 3: one article per kind and opponent; selected is the list so far
RECURSIVE news_selected(_, _)
news_selected(its, selected) ==
    IF its = << >> THEN selected
    ELSE With(Head(its), LAMBDA a :
         With({k \in 1..Len(selected) :
                 match_key(a) # << >> /\ match_key(selected[k]) = match_key(a)},
              LAMBDA held :
         With(IF held # {}
              THEN [k \in 1..Len(selected) |->
                       IF k \in held /\ _better(a, selected[k]) THEN a ELSE selected[k]]
              ELSE Append(selected, a),
              LAMBDA next : news_selected(Tail(its), next))))

\* step 4: at most cap articles of a source
RECURSIVE news_capped(_, _, _)
news_capped(selected, cap, counts) ==
    IF selected = << >> THEN << >>
    ELSE With(Head(selected).source, LAMBDA src :
             IF get(counts, src, 0) >= cap
             THEN news_capped(Tail(selected), cap, counts)
             ELSE With(bump(counts, src), LAMBDA counted :
                      <<Head(selected)>> \o news_capped(Tail(selected), cap, counted)))

\* a < b for the sort keys (instant, -1000 - rank, id) of two articles
news_key_lt(a, b) ==
    IF NewsTable[a].dt # NewsTable[b].dt THEN NewsTable[a].dt < NewsTable[b].dt
    ELSE IF NewsTable[a].rank # NewsTable[b].rank THEN NewsTable[b].rank < NewsTable[a].rank
    ELSE str_lt(a.id, b.id)

\* step 5: capped.sort(key=..., reverse=True)
news_sorted(capped) ==
    With([i \in 1..Len(capped) |->
             1 + Cardinality({j \in 1..Len(capped) : news_key_lt(capped[i], capped[j])})
               + Cardinality({j \in 1..(i - 1) :
                                 /\ ~news_key_lt(capped[i], capped[j])
                                 /\ ~news_key_lt(capped[j], capped[i])})],
         LAMBDA ranks :
            [r \in 1..Len(capped) |-> capped[CHOOSE i \in 1..Len(capped) : ranks[i] = r]])

\* the corpus before the per-provider cap: steps 0 to 3
news_corpus(its) ==
    With(news_filtered(its), LAMBDA kept :
    With(news_deduped(kept, {}), LAMBDA deduped :
        news_selected(deduped, << >>)))

\* the payload of get_news for the fetched articles its
get_news(its, pg, pageSize) ==
    With(news_corpus(its), LAMBDA selected :
    With(IF pageSize \div 4 > 6 THEN pageSize \div 4 ELSE 6, LAMBDA cap :
    With(news_capped(selected, cap, << >>), LAMBDA capped :
    With(news_sorted(capped), LAMBDA ordered :
        [ items    |-> SubSeq(ordered,
                              ((pg - 1) * pageSize) + 1,
                              IF pg * pageSize < Len(ordered) THEN pg * pageSize
                              ELSE Len(ordered)),
          page     |-> pg,
          pageSize |-> pageSize,
          total    |-> Len(capped) ]))))

---------------------------------------------------------------------------
(* db.py and persist.py: the SQLite table `items` is the sequence of its   *)
(* rows in rowid order.  Every statement runs on a connection of its own   *)
(* that is closed in a finally clause: a statement that fails leaves the   *)
(* table as it was.                                                        *)
\* the dict fetcher._normalize_item builds (type: "fan" or "official")
Story(provider, type, title, url, imageUrl, publishedUtc) ==
    [ provider |-> provider, type |-> type, title |-> title, url |-> url,
      summary |-> "", imageUrl |-> imageUrl, publishedUtc |-> publishedUtc ]

DB_FIRST    == Story("Arseblog", "fan", "Saka back in training",
                     "https://arseblog.com/d1", "",
                     "2024-03-06T09:00:00Z")
DB_UPDATED  == Story("Arseblog", "fan", "Saka back in full training",
                     "https://arseblog.com/d1", "d1.jpg",
                     "2024-03-06T10:00:00Z")
DB_SPACED   == Story("Arseblog ", "", " Saka trains again ",
                     " https://arseblog.com/d1 ", "",
                     "2024-03-06T11:00:00Z ")
DB_OFFICIAL == Story("EveningStandard", "official", "Arsenal open contract talks",
                     "https://standard.co.uk/d2", "d2.jpg",
                     "2024-03-05T08:00:00Z")
DB_LAST_SEASON == Story("Arseblog", "fan", "Pre-season tour squad named",
                     "https://arseblog.com/d3", "",
                     "2023-07-20T08:00:00Z")
DB_UPPER    == Story("PainInTheArsenal", "fan", "Rice on the title race",
                     "https://PainInTheArsenal.com/D4", "",
                     "2024-03-04T08:00:00Z")
DB_NO_URL   == Story("Arseblog", "fan", "Odegaard signs", "", "",
                     "2024-03-06T12:00:00Z")
DB_NO_TITLE == Story("Arseblog", "fan", "", "https://arseblog.com/d5", "",
                     "2024-03-06T13:00:00Z")
DB_NO_DATE  == Story("Arseblog", "fan", "Havertz interview",
                     "https://arseblog.com/d6", "", "")

\* what a caller can hand to upsert_items
DbCatalogue ==
    { DB_FIRST, DB_UPDATED, DB_SPACED, DB_OFFICIAL, DB_LAST_SEASON, DB_UPPER,
      DB_NO_URL, DB_NO_TITLE, DB_NO_DATE }

\* what fetch_news returns: _normalize_item drops a story without a title
\* or a link, strips both and fills in a missing date
LiveCatalogue ==
    { DB_FIRST, DB_UPDATED, DB_OFFICIAL, DB_LAST_SEASON, DB_UPPER }

\* the lists of at most n different stories of a catalogue
Batches(cat, n) ==
    { b \in UNION { [1..k -> cat] : k \in 0..n } :
        \A i, j \in 1..Len(b) : i # j => b[i] # b[j] }

\* _utc_now_iso() and date.today() at the time of a call
Clock == { "2024-03-06T14:00:00Z", "2024-09-01T09:00:00Z" }

\* the tuple upsert_items binds to the INSERT statement for each story,
\* before the time of the call is known
BoundColumns ==
    [ it \in DbCatalogue |->
        [ provider |-> strip(it.provider),
          type |-> strip(IF it.type = "" THEN "fan" ELSE it.type),
          title |-> strip(it.title), url |-> strip(it.url),
          summary |-> strip(it.summary), imageUrl |-> it.imageUrl,
          publishedUtc |-> strip(it.publishedUtc), createdAt |-> "" ] ]

\* the tuple upsert_items binds at time `now`
row_params(it, now) == [BoundColumns[it] EXCEPT !.createdAt = now]

\* (it.get("url") or "").strip().lower() for the urls of the stories and
\* of their rows
UrlKeys ==
    [ u \in { it.url : it \in DbCatalogue }
            \cup { strip(it.url) : it \in DbCatalogue } |-> lower(strip(u)) ]

\* INSERT OR REPLACE: the row that holds the url is deleted first
insert_or_replace(rows, r) ==
    Append(SelectSeq(rows, LAMBDA x : x.url # r.url),
           [ id |-> Len(rows) + 1, provider |-> r.provider, type |-> r.type,
             title |-> r.title, url |-> r.url, summary |-> r.summary,
             imageUrl |-> r.imageUrl, publishedUtc |-> r.publishedUtc,
             createdAt |-> r.createdAt ])

\* INSERT OR IGNORE: url is UNIQUE, a row whose url is stored is skipped
insert_or_ignore(rows, r) ==
    IF \E k \in 1..Len(rows) : rows[k].url = r.url THEN rows
    ELSE Append(rows,
           [ id |-> Len(rows) + 1, provider |-> r.provider, type |-> r.type,
             title |-> r.title, url |-> r.url, summary |-> r.summary,
             imageUrl |-> r.imageUrl, publishedUtc |-> r.publishedUtc,
             createdAt |-> r.createdAt ])

\* cursor.executemany: the statement runs once per tuple, in order
RECURSIVE executemany(_, _)
executemany(rows, params) ==
    IF params = << >> THEN rows
    ELSE executemany(insert_or_ignore(rows, Head(params)), Tail(params))

\* the list comprehension of upsert_items: the items it binds
insertable(it) == it.url # "" /\ it.title # "" /\ it.publishedUtc # ""

\* upsert_items(items) on the table `rows` at time `now`: the table after
\* the commit and the returned cursor.rowcount
upsert_items(rows, its, now) ==
    IF its = << >> THEN [ rows |-> rows, rowcount |-> 0 ]
    ELSE With(executemany(rows,
                 [ i \in 1..Len(SelectSeq(its, insertable)) |->
                     row_params(SelectSeq(its, insertable)[i], now) ]),
              LAMBDA after :
                 [ rows |-> after, rowcount |-> Len(after) - Len(rows) ])

\* ORDER BY publishedUtc DESC: the place of row i among the selected rows
\* (rows of one publishedUtc in rowid order)
load_rank(sel, i) ==
    Cardinality({ j \in 1..Len(sel) :
        \/ str_lt(sel[i].publishedUtc, sel[j].publishedUtc)
        \/ sel[j].publishedUtc = sel[i].publishedUtc /\ j <= i })

\* load_items(since_iso) for a season start since_iso
load_items(rows, since_iso) ==
    With(SelectSeq(rows, LAMBDA r : ~str_lt(r.publishedUtc, since_iso)),
         LAMBDA sel :
            [ n \in 1..Len(sel) |->
                With(sel[CHOOSE i \in 1..Len(sel) : load_rank(sel, i) = n],
                     LAMBDA r :
                        [ provider |-> r.provider, type |-> r.type,
                          title |-> r.title, url |-> r.url,
                          summary |-> r.summary, imageUrl |-> r.imageUrl,
                          publishedUtc |-> r.publishedUtc ]) ])

\* _season_start_iso_utc(today) for today the date of the text `now`
_season_start_iso_utc(now) ==
    With(num(SubSeq(now, 1, 4)), LAMBDA year :
    With(num(SubSeq(now, 6, 7)), LAMBDA month :
        pad4(IF month >= 7 THEN year ELSE year - 1) \o "-08-01T00:00:00Z"))

\* by_url[url] = it on a dict held as the sequence of its <<key, value>>
\* pairs in insertion order: a key that is present keeps its place
dict_set(d, k, v) ==
    IF \E i \in 1..Len(d) : d[i][1] = k
    THEN [ i \in 1..Len(d) |-> IF d[i][1] = k THEN <<k, v>> ELSE d[i] ]
    ELSE Append(d, <<k, v>>)

\* the two merge loops of fetch_with_persistence
RECURSIVE merge_by_url(_, _)
merge_by_url(d, its) ==
    IF its = << >> THEN d
    ELSE With(UrlKeys[Head(its).url], LAMBDA url :
            merge_by_url(IF url # "" THEN dict_set(d, url, Head(its)) ELSE d,
                         Tail(its)))

\* the storage calls of fetch_with_persistence
StorageCalls == { "ensure_schema", "upsert_items", "load_items" }

\* fetch_with_persistence() when fetch_news returns `live` at time `now`
\* and the storage calls in `failing` raise: the table after the call and
\* what the caller gets, a list or the exception
fetch_with_persistence(store, live, now, failing) ==
    IF "ensure_schema" \in failing
    THEN [ db |-> store, raised |-> TRUE, value |-> << >> ]
    ELSE With(IF "upsert_items" \in failing THEN store.rows
              ELSE upsert_items(store.rows, live, now).rows,
              LAMBDA rows :
         IF "load_items" \in failing
         THEN [ db |-> [ schema |-> TRUE, rows |-> rows ],
                raised |-> TRUE, value |-> << >> ]
         ELSE With(merge_by_url(
                     merge_by_url(<< >>,
                        load_items(rows, _season_start_iso_utc(now))), live),
                   LAMBDA by_url :
                     [ db |-> [ schema |-> TRUE, rows |-> rows ],
                       raised |-> FALSE,
                       value |-> [ i \in 1..Len(by_url) |-> by_url[i][2] ] ]))

---------------------------------------------------------------------------
(* The state machine.  A caller assembles a list of items and hands it to  *)
(* one of the engine's operations; _dedupe and collapse_near_dupes can be  *)
(* run again on what they returned.                                        *)
MaxItems == 3
MaxCorpus == 4
MaxPage == 3
MaxPageSize == 3

Init ==
    /\ items = << >>
    /\ op = "none"
    /\ arg = << >>
    /\ result = << >>
    /\ page = 0
    /\ page_size = 0
    /\ caps = << >>
    /\ db = [ schema |-> FALSE, rows |-> << >> ]

\* one more item arrives from the feed `cat`
Fetch(cat) ==
    /\ op = "none"
    /\ Len(items) < MaxItems
    /\ \E it \in cat :
          /\ \A i \in 1..Len(items) : items[i].id # it.id
          /\ items' = Append(items, [it EXCEPT !.obj = Len(items) + 1])
    /\ UNCHANGED <<op, arg, result, page, page_size, caps, db>>

Dedupe ==
    /\ op = "none"
    /\ arg' = items
    /\ result' = _dedupe(items)
    /\ op' = "dedupe"
    /\ UNCHANGED <<items, page, page_size, caps, db>>

DedupeAgain ==
    /\ op = "dedupe"
    /\ arg' = result
    /\ result' = _dedupe(result)
    /\ op' = "dedupe_again"
    /\ UNCHANGED <<items, page, page_size, caps, db>>

Collapse ==
    /\ op = "none"
    /\ arg' = items
    /\ result' = collapse_near_dupes(items)
    /\ op' = "collapse"
    /\ UNCHANGED <<items, page, page_size, caps, db>>

CollapseAgain ==
    /\ op = "collapse"
    /\ arg' = result
    /\ result' = collapse_near_dupes(result)
    /\ op' = "collapse_again"
    /\ UNCHANGED <<items, page, page_size, caps, db>>

\* apply_policy_core(items): the dicts of the caller's list are updated in
\* place
ApplyPolicy ==
    /\ op = "none"
    /\ arg' = items
    /\ result' = apply_policy_core(items, TRUE)
    /\ items' = input_after_policy(items, TRUE, result')
    /\ op' = "policy"
    /\ UNCHANGED <<page, page_size, caps, db>>

\* one more item of the feed `cat` joins a corpus that is kept in the order
\* apply_policy_core sorts by: it sorts after every item already there
FetchRanked(cat) ==
    /\ op = "none"
    /\ Len(items) < MaxCorpus
    /\ \E it \in cat :
          /\ items # << >> => tie_key_lt(_tie_key(it), _tie_key(items[Len(items)]))
          /\ items' = Append(items, [it EXCEPT !.obj = Len(items) + 1])
    /\ UNCHANGED <<op, arg, result, page, page_size, caps, db>>

\* the cap tables a caller passes: none, one that lowers a single provider,
\* one whose caps are all zero
CapTables ==
    { << >>,
      [ p \in {"Arseblog"} |-> 1 ],
      [ p \in _ALLOWED_PROVIDERS |-> 0 ] }

\* page_with_caps(items, p, ps, c)
PageWithCaps ==
    /\ op = "none"
    /\ \E p \in 1..MaxPage, ps \in 1..MaxPageSize, c \in CapTables :
          /\ page' = p
          /\ page_size' = ps
          /\ caps' = c
          /\ result' = page_with_caps(items, p, ps, c)
    /\ arg' = items
    /\ op' = "page"
    /\ UNCHANGED <<items, db>>

Next ==
    \/ Fetch(Catalogue)
    \/ Dedupe
    \/ DedupeAgain
    \/ Collapse
    \/ CollapseAgain
    \/ ApplyPolicy

Spec == Init /\ [][Next]_vars

NextPage ==
    \/ FetchRanked(PageCatalogue)
    \/ PageWithCaps

SpecPage == Init /\ [][NextPage]_vars

NextSort ==
    \/ Fetch(SortCatalogue)
    \/ ApplyPolicy

SpecSort == Init /\ [][NextSort]_vars

\* the stories of the fourth feed arrive newest first
NextFilter ==
    \/ FetchRanked(FilterCatalogue)
    \/ ApplyPolicy

SpecFilter == Init /\ [][NextFilter]_vars

\* the publication times a story can carry when it is scored
PublishedTimes ==
    { "2024-03-06T09:00:00Z", "2024-03-05T18:00:00Z",
      "2024-03-04T18:00:00Z", "2024-03-03T12:00:00Z" }

\* _score(it) for a story of the list as published at one time and as
\* published at another
Score ==
    /\ op = "none"
    /\ \E i \in 1..Len(items), t1, t2 \in PublishedTimes :
          /\ arg' = << [items[i] EXCEPT !.publishedUtc = t1],
                       [items[i] EXCEPT !.publishedUtc = t2] >>
          /\ result' = << _score([items[i] EXCEPT !.publishedUtc = t1]),
                          _score([items[i] EXCEPT !.publishedUtc = t2]) >>
    /\ op' = "score"
    /\ UNCHANGED <<items, page, page_size, caps, db>>

NextScore ==
    \/ Fetch(PageCatalogue)
    \/ Score

SpecScore == Init /\ [][NextScore]_vars

\* canonicalize_provider(p) for a provider text p
Canonicalize ==
    /\ op = "none"
    /\ \E p \in ProviderTexts :
          /\ arg' = p
          /\ result' = canonicalize_provider(p)
    /\ op' = "canon"
    /\ UNCHANGED <<items, page, page_size, caps, db>>

\* canonicalize_provider applied to what it returned
CanonicalizeAgain ==
    /\ op = "canon"
    /\ arg' = result
    /\ result' = canonicalize_provider(result)
    /\ op' = "canon_again"
    /\ UNCHANGED <<items, page, page_size, caps, db>>

NextCanon ==
    \/ Canonicalize
    \/ CanonicalizeAgain

SpecCanon == Init /\ [][NextCanon]_vars

\* the fetch phase appends one more article of the feeds
FetchArticle ==
    /\ op = "none"
    /\ \E k \in 1..Len(NewsFeed) :
          /\ \A i \in 1..Len(items) : \E j \in 1..(k - 1) : NewsFeed[j] = items[i]
          /\ items' = Append(items, NewsFeed[k])
    /\ UNCHANGED <<op, arg, result, page, page_size, caps, db>>

\* the page sizes a client asks for (1..100 are allowed)
PageSizes == {4, 24, 28}

\* GET /news?page=p&pageSize=ps, the fetch phase having filled items
GetNews ==
    /\ op = "none"
    /\ \E p \in 1..2, ps \in PageSizes :
          /\ page' = p
          /\ page_size' = ps
          /\ result' = get_news(items, p, ps)
    /\ arg' = items
    /\ op' = "news"
    /\ UNCHANGED <<items, caps, db>>

NextNews ==
    \/ FetchArticle
    \/ GetNews

SpecNews == Init /\ [][NextNews]_vars

\* the bounds of the storage runs: stories per call, and the number of
\* rows from which on no further call is made
MaxBatch == 2
MaxRows == 2

\* ensure_schema(): CREATE TABLE IF NOT EXISTS
EnsureSchema ==
    /\ ~db.schema
    /\ db' = [db EXCEPT !.schema = TRUE]
    /\ op' = "schema"
    /\ arg' = << >>
    /\ result' = << >>
    /\ UNCHANGED <<items, page, page_size, caps>>

\* upsert_items(batch), after ensure_schema() as in persist.py
Upsert ==
    /\ db.schema
    /\ Len(db.rows) < MaxRows
    /\ \E batch \in Batches(DbCatalogue, MaxBatch), now \in Clock :
          /\ arg' = [ items |-> batch, rows |-> db.rows ]
          /\ \E done \in { upsert_items(db.rows, batch, now) } :
                /\ result' = [ raised |-> FALSE, value |-> done.rowcount ]
                /\ db' = [db EXCEPT !.rows = done.rows]
    /\ op' = "upsert"
    /\ UNCHANGED <<items, page, page_size, caps>>

\* one request: fetch_with_persistence() while fetch_news returns `live`
\* and the storage calls in `failing` raise.  The table a request leaves
\* is the table upsert_items(live) leaves, so the requests that follow a
\* request start from tables the writes above have already produced.
FetchWithPersistence ==
    /\ op # "persist"
    /\ Len(db.rows) < MaxRows
    /\ \E live \in Batches(LiveCatalogue, MaxBatch), now \in Clock,
          failing \in SUBSET StorageCalls :
          /\ arg' = [ items |-> live, rows |-> db.rows, now |-> now,
                      failing |-> failing ]
          /\ \E done \in { fetch_with_persistence(db, live, now, failing) } :
                /\ result' = [ raised |-> done.raised, value |-> done.value ]
                /\ db' = done.db
    /\ op' = "persist"
    /\ UNCHANGED <<items, page, page_size, caps>>

NextStore ==
    \/ EnsureSchema
    \/ Upsert
    \/ FetchWithPersistence

SpecStore == Init /\ [][NextStore]_vars

---------------------------------------------------------------------------
(* The claims.                                                             *)

\* every reordering of the list s
Reorderings(s) ==
    { [i \in 1..Len(s) |-> s[f[i]]] : f \in Permutations(1..Len(s)) }

\* the positions of `its` whose item is in the list `out` (the same dict)
kept_in(its, out) == {i \in 1..Len(its) : \E k \in 1..Len(out) : out[k].obj = its[i].obj}

\* C1: apply_policy_core is order-independent: whatever the order the
\* caller's list is in, the list returned has the same members in the same
\* order.
C1_PolicyOrderIndependent ==
    op = "policy" =>
        \A p \in Reorderings(arg) : apply_policy_core(p, TRUE) = result

\* The normal form of a URL the specification names for the exact dedupe:
\* case-folded, the scheme normalized (http and https are one), the
\* trailing slash stripped.
normalized_url(u) ==
    LET t == lower(strip(u))
        h == IF Slice(t, 1, 8) = "https://" THEN Slice(t, 9, Len(t))
             ELSE IF Slice(t, 1, 7) = "http://" THEN Slice(t, 8, Len(t))
             ELSE t
    IN  IF h # "" /\ CharAt(h, Len(h)) = "/" THEN Slice(h, 1, Len(h) - 1) ELSE h

\* C2: after _dedupe no two surviving items have URLs that are equal after
\* normalization (case folding, scheme normalization, trailing slash
\* stripped).
C2_NoTwoShareNormalizedUrl ==
    op = "dedupe" =>
        \A i, j \in 1..Len(result) :
            i # j => normalized_url(result[i].url) # normalized_url(result[j].url)

\* the cluster key of an item of the universe
key_of(it) == BucketKeyTable[facet(it)]

\* C3: after collapse_near_dupes no two survivors have the same cluster
\* key, and every cluster key of the input has exactly one survivor, which
\* is one of the input items that have that key.
C3_OneSurvivorPerClusterKey ==
    op = "collapse" =>
        /\ \A i, j \in 1..Len(result) :
              i # j => key_of(result[i]) # key_of(result[j])
        /\ \A i \in 1..Len(arg) :
              /\ Cardinality({k \in 1..Len(result) : key_of(result[k]) = key_of(arg[i])}) = 1
              /\ \A k \in 1..Len(result) :
                    key_of(result[k]) = key_of(arg[i])
                        => \E m \in 1..Len(arg) :
                              arg[m] = result[k] /\ key_of(arg[m]) = key_of(arg[i])

\* a cluster of two or more input items has been collapsed to one survivor
C3_Witness ==
    /\ op = "collapse"
    /\ \E i, j \in 1..Len(arg) : i # j /\ key_of(arg[i]) = key_of(arg[j])
    /\ Len(result) < Len(arg)

\* positions i and j of `its` hold previews of one fixture (the same
\* opponent was derived for both) from different providers, published
\* within two hours of each other
same_fixture_previews(its, i, j) ==
    LET a == its[i]
        b == its[j]
        d == nd_parse_dt(a.publishedUtc) - nd_parse_dt(b.publishedUtc)
    IN  /\ i # j
        /\ ClassifyTable[facet(a)] = "preview" /\ ClassifyTable[facet(b)] = "preview"
        /\ Contains(key_of(a)[1], ":") /\ key_of(a)[1] = key_of(b)[1]
        /\ provider_of(a) # provider_of(b)
        /\ d < 7200 /\ -d < 7200

\* C4: of previews of the same fixture from different providers published
\* within two hours of each other, collapse_near_dupes returns exactly
\* one, wherever in the day the two hours fall: no two of them both
\* survive, and one item about the fixture does.
C4_PreviewsWithinTwoHoursCollapse ==
    op = "collapse" =>
        \A i, j \in 1..Len(arg) :
            same_fixture_previews(arg, i, j) =>
                /\ ~({i, j} \subseteq kept_in(arg, result))
                /\ \E k \in 1..Len(result) : key_of(result[k])[1] = key_of(arg[i])[1]

\* C5: collapse_near_dupes chooses the same survivors whatever the order
\* of its input: every reordering of the input gives the same set.
C5_CollapseOrderIndependent ==
    op = "collapse" =>
        \A p \in Reorderings(arg) : Range(collapse_near_dupes(p)) = Range(result)

\* a ranks strictly higher than b: by provider priority, then having an
\* image, then the more recent publishedUtc, then the shorter title
ranks_higher(a, b) ==
    LET pa == _provider_priority(a.provider)
        pb == _provider_priority(b.provider)
        ia == IF a.imageUrl # "" THEN 1 ELSE 0
        ib == IF b.imageUrl # "" THEN 1 ELSE 0
        ta == nd_parse_dt(a.publishedUtc)
        tb == nd_parse_dt(b.publishedUtc)
    IN  \/ pa > pb
        \/ pa = pb /\ ia > ib
        \/ pa = pb /\ ia = ib /\ ta > tb
        \/ pa = pb /\ ia = ib /\ ta = tb /\ Len(a.title) < Len(b.title)

\* the positions of `its` whose item has the cluster key of x
members_of(its, x) == {i \in 1..Len(its) : key_of(its[i]) = key_of(x)}

\* the kind of the cluster of x: the class most of its members have
kind_of_cluster(its, x) == majority_class(SelectSeq(its, LAMBDA y : key_of(y) = key_of(x)))

\* the members of the cluster of x that the survivor is chosen among: those
\* of the provider preferred for the cluster's kind when there are any,
\* all of them otherwise
candidates_of(its, x) ==
    LET kind == kind_of_cluster(its, x)
        pref == IF kind = "preview" THEN "EveningStandard"
                ELSE IF kind = "report" THEN "ArsenalOfficial"
                ELSE "none"
        preferred == {i \in members_of(its, x) : its[i].provider = pref}
    IN  IF preferred # {} THEN preferred ELSE members_of(its, x)

\* C6: in a cluster of more than one member the survivor is taken from
\* the provider preferred for the cluster's kind when that provider is in
\* the cluster (EveningStandard for previews, ArsenalOfficial for
\* reports), from the whole cluster otherwise, and no other candidate
\* ranks strictly higher by (priority, image, recency, shorter title).
C6_SurvivorIsBestCandidate ==
    op = "collapse" =>
        \A k \in 1..Len(result) :
            Cardinality(members_of(arg, result[k])) > 1 =>
                /\ \E i \in candidates_of(arg, result[k]) : arg[i] = result[k]
                /\ \A i \in candidates_of(arg, result[k]) : ~ranks_higher(arg[i], result[k])

\* a cluster that holds its preferred provider and another one was
\* collapsed, and the member kept is neither the first nor the newest
C6_Witness ==
    /\ op = "collapse"
    /\ \E k \in 1..Len(result) :
          /\ candidates_of(arg, result[k]) # members_of(arg, result[k])
          /\ arg[1] # result[k] /\ key_of(arg[1]) = key_of(result[k])
          /\ \E i \in members_of(arg, result[k]) :
                nd_parse_dt(arg[i].publishedUtc) > nd_parse_dt(result[k].publishedUtc)

C8_SecondRunChangesNothing ==
    op \in {"dedupe_again", "collapse_again"} => result = arg

\* the second run was given a list the first run had shortened
C8_Witness ==
    /\ op \in {"dedupe_again", "collapse_again"}
    /\ 0 < Len(arg) /\ Len(arg) < Len(items)

\* the list with every provider field rewritten to the canonical name
canonical(its) == [i \in 1..Len(its) |-> canonical_item(its[i])]

\* C9: an item whose provider field is an alias is treated like the same
\* item carrying the canonical name: the policy and the near-duplicate
\* collapse return for a list what they return for the list with the
\* canonical names (the provider field apart).
C9_AliasTreatedLikeCanonicalName ==
    /\ op = "policy" => canonical(result) = apply_policy_core(canonical(arg), TRUE)
    /\ op = "collapse" => canonical(result) = collapse_near_dupes(canonical(arg))

\* C10: page_with_caps returns min(pageSize, number of items at or after
\* the offset (page - 1) * pageSize) items, never more than pageSize, and
\* nothing when the offset is at or beyond the end of the corpus.
C10_PageLength ==
    op = "page" =>
        LET offset    == (page - 1) * page_size
            remaining == IF Len(arg) > offset THEN Len(arg) - offset ELSE 0
        IN  /\ Len(result) <= page_size
            /\ Len(result) = (IF page_size < remaining THEN page_size ELSE remaining)
            /\ offset >= Len(arg) => result = << >>

\* a full page of one provider's items under caps that are all zero
C10_Witness ==
    /\ op = "page"
    /\ DOMAIN caps = _ALLOWED_PROVIDERS /\ \A p \in DOMAIN caps : caps[p] = 0
    /\ page_size = MaxPageSize /\ Len(result) = page_size
    /\ \A k \in 1..Len(result) : provider_of(result[k]) = "Arseblog"

\* the cap page_with_caps works with for the provider p
cap_of(p) == get(merge(_PROVIDER_CAPS_DEFAULT, caps), p, 2)

\* the positions of arg after the page offset
from_offset == (((page - 1) * page_size) + 1)..Len(arg)

\* the positions after the offset a scan under the strict caps admits:
\* those with fewer than cap items of their provider before them
admissible ==
    { i \in from_offset :
        Cardinality({j \in from_offset :
                        j < i /\ provider_of(arg[j]) = provider_of(arg[i])})
            < cap_of(provider_of(arg[i])) }

\* the number of items of provider p in the list its
count_of(its, p) == Cardinality({k \in 1..Len(its) : provider_of(its[k]) = p})

\* C11: when the corpus from the page offset on holds at least pageSize
\* items admissible under the strict caps, the page holds of every provider
\* at most its configured cap (2 for a provider the table does not list).
C11_StrictCapsRespected ==
    (op = "page" /\ Cardinality(admissible) >= page_size) =>
        \A k \in 1..Len(result) :
            count_of(result, provider_of(result[k])) <= cap_of(provider_of(result[k]))

\* a full page under the strict caps that passed over an item of a
\* provider the table does not list, the provider being at its cap of 2
C11_Witness ==
    /\ op = "page" /\ Cardinality(admissible) >= page_size
    /\ Len(result) = page_size
    /\ \E i \in from_offset :
          /\ i \notin admissible
          /\ i < result[Len(result)].obj
          /\ provider_of(arg[i]) \notin DOMAIN merge(_PROVIDER_CAPS_DEFAULT, caps)
          /\ count_of(result, provider_of(arg[i])) = 2

\* C12: a page holds no corpus position twice, only positions at or after
\* the page offset, and in the order of the corpus, whichever pass admitted
\* them.
C12_PageInCorpusOrder ==
    op = "page" =>
        /\ \A k \in 1..Len(result) :
              /\ result[k].obj \in from_offset
              /\ result[k] = arg[result[k].obj]
        /\ \A k, l \in 1..Len(result) : k < l => result[k].obj < result[l].obj

\* a page whose second item was admitted by a relaxed pass, after the strict
\* pass had admitted the third
C12_Witness ==
    /\ op = "page" /\ Len(result) = 3
    /\ result[2].obj \notin admissible
    /\ result[3].obj \in admissible

\* C14: apply_policy_core does not mutate its input: after the call every
\* field of every item of the caller's list, kept or dropped, has the value
\* it had before the call.
C14_InputNotMutated ==
    op = "policy" => items = arg

\* the UTC instant of an item's publishedUtc, the epoch when it has none
instant(it) ==
    IF _parse_dt(it.publishedUtc) = NoDate THEN 0 ELSE _parse_dt(it.publishedUtc)

\* the documented sort tuple: instant, score, case-folded title, id
sort_tuple(it) ==
    << instant(it), _score(it), LowerTable[it.title],
       LowerTable[IF it.id # "" THEN it.id ELSE it.url] >>

\* a < b for two sort tuples
sort_tuple_lt(a, b) ==
    IF a[1] # b[1] THEN a[1] < b[1]
    ELSE IF a[2] # b[2] THEN a[2] < b[2]
    ELSE IF a[3] # b[3] THEN str_lt(a[3], b[3])
    ELSE str_lt(a[4], b[4])

\* C15: in the output of apply_policy_core the tuple (publishedUtc as a UTC
\* instant, score, case-folded title, id) of an item is greater than or
\* equal to that of the item after it, whatever ISO-8601 offset the
\* timestamps carry.
C15_AdjacentTuplesDescend ==
    op = "policy" =>
        \A k \in 1..(Len(result) - 1) :
            ~sort_tuple_lt(sort_tuple(result[k]), sort_tuple(result[k + 1]))

\* the position in the list out of the dict at position i of its, 0 when
\* it is not there
position_in(its, i, out) ==
    IF i \in kept_in(its, out)
    THEN CHOOSE k \in 1..Len(out) : out[k].obj = its[i].obj
    ELSE 0

\* C16: two items that enter apply_policy_core with one publishedUtc and one
\* score but different titles, of one provider or of two, come out in the
\* order of their case-folded titles, then of their ids (the greater first,
\* the sort being descending).
C16_EqualTimeOrderedByTitle ==
    op = "policy" =>
        \A i, j \in kept_in(arg, result) :
            (/\ i # j
             /\ arg[i].publishedUtc = arg[j].publishedUtc
             /\ _score(arg[i]) = _score(arg[j])
             /\ arg[i].title # arg[j].title)
            => (position_in(arg, i, result) < position_in(arg, j, result)
                <=> IF LowerTable[arg[i].title] # LowerTable[arg[j].title]
                    THEN str_lt(LowerTable[arg[j].title], LowerTable[arg[i].title])
                    ELSE str_lt(LowerTable[arg[j].id], LowerTable[arg[i].id]))

\* C17: no item without a title and no item without a url is in the output
\* of apply_policy_core.
C17_MalformedItemsDropped ==
    op = "policy" =>
        \A k \in 1..Len(result) : result[k].title # "" /\ result[k].url # ""

\* C18: an item whose publishedUtc is absent or no date, and that passes the
\* other filters and duplicates nothing, is in the output of
\* apply_policy_core, and it comes after every item with a valid timestamp
\* later than the epoch.
C18_UndatedItemsKeptAndLast ==
    op = "policy" =>
        /\ \A i \in 1..Len(arg) :
              (/\ _parse_dt(arg[i].publishedUtc) = NoDate
               /\ PassesTable[<<facet(arg[i]), TRUE>>]
               /\ DedupeKeyTable[arg[i].url] # ""
               /\ \A j \in 1..Len(arg) :
                     j # i => /\ DedupeKeyTable[arg[j].url] # DedupeKeyTable[arg[i].url]
                              /\ arg[j].title # arg[i].title)
              => i \in kept_in(arg, result)
        /\ \A k, l \in 1..Len(result) :
              (/\ _parse_dt(result[k].publishedUtc) = NoDate
               /\ _parse_dt(result[l].publishedUtc) # NoDate
               /\ instant(result[l]) > 0)
              => l < k

\* C19: canonicalize_provider returns a value for every text, the empty one
\* included, and applying it to what it returned changes nothing.
C19_CanonicalizeIdempotent ==
    op = "canon_again" => result = arg

\* the text in lower case without a leading "www."
without_case_and_www(p) ==
    With(lower(p), LAMBDA l :
        IF Slice(l, 1, 4) = "www." THEN Slice(l, 5, Len(l)) ELSE l)

\* without_case_and_www and canonicalize_provider on the provider texts,
\* computed once
ProviderTextTable ==
    [ p \in ProviderTexts |-> <<without_case_and_www(p), canonicalize_provider(p)>> ]

\* C20: two provider texts that differ only in letter case or in a leading
\* "www." get the same canonical name.
C20_CaseAndWwwInsensitive ==
    op = "canon" =>
        \A q \in ProviderTexts :
            ProviderTextTable[q][1] = ProviderTextTable[arg][1]
                => ProviderTextTable[q][2] = result

\* C13: the total reported with a page is the size of the filtered,
\* deduplicated and collapsed corpus before any per-provider cap, and it is
\* the same for every page and pageSize over the same fetched articles.
C13_TotalIsCorpusSize ==
    op = "news" =>
        /\ result.total = Len(news_corpus(arg))
        /\ \A p \in 1..2, ps \in PageSizes : get_news(arg, p, ps).total = result.total

\* the caps of a pass that admits every provider of the corpus, listed in
\* the cap table or not, up to its strict cap plus k
caps_plus(k) ==
    [ p \in DOMAIN merge(_PROVIDER_CAPS_DEFAULT, caps)
              \cup {provider_of(arg[i]) : i \in 1..Len(arg)} |-> cap_of(p) + k ]

\* the page of a composer whose passes work with caps_plus(0), caps_plus(1)
\* and caps_plus(2), and which tops up as page_with_caps does
page_with_caps_plus ==
    With(((page - 1) * page_size) + 1, LAMBDA start_index :
    With(_fill_with_limit(arg, start_index, page_size, << >>, caps_plus(0), {}), LAMBDA p1 :
    With(Range(p1[1]), LAMBDA sel1 :
    With(_fill_with_limit(arg, start_index, page_size, p1[2], caps_plus(1), sel1), LAMBDA p2 :
    With(sel1 \cup Range(p2[1]), LAMBDA sel2 :
    With(_fill_with_limit(arg, start_index, page_size, p2[2], caps_plus(2), sel2), LAMBDA p3 :
    With(sel2 \cup Range(p3[1]), LAMBDA sel3 :
        IF start_index > Len(arg) THEN << >>
        ELSE IF Cardinality(sel1) >= page_size THEN emit(arg, sel1, page_size)
        ELSE IF Cardinality(sel2) >= page_size THEN emit(arg, sel2, page_size)
        ELSE IF Cardinality(sel3) >= page_size THEN emit(arg, sel3, page_size)
        ELSE emit(arg, top_up(Len(arg), start_index, page_size, sel3), page_size))))))))

\* C25: when pass 1 under-fills the page, relaxed pass k (1, then 2) admits
\* every provider up to its strict cap plus k, a provider the cap table does
\* not list (strict cap 2) included: the page is the one such passes give.
C25_RelaxedPassRaisesEveryCap ==
    (op = "page" /\ Cardinality(admissible) < page_size) =>
        result = page_with_caps_plus

\* the pages 1, 2, ... of the corpus in arg, for the page size and the cap
\* table of the call
page_numbers == 1..((Len(arg) + page_size - 1) \div page_size)
page_of(p) == page_with_caps(arg, p, page_size, caps)

\* C26: for a fixed sorted corpus, pageSize and cap table, no corpus item is
\* returned on two different page numbers.
C26_PagesDisjoint ==
    op = "page" =>
        \A p, q \in 1..MaxPage :
            p # q => \A k \in 1..Len(page_of(p)), l \in 1..Len(page_of(q)) :
                        page_of(p)[k].obj # page_of(q)[l].obj

\* C27: for a fixed sorted corpus, pageSize and cap table, every corpus item
\* is returned on at least one page number between 1 and
\* ceil(total / pageSize).
C27_EveryItemOnSomePage ==
    op = "page" =>
        \A i \in 1..Len(arg) :
            \E p \in page_numbers : \E k \in 1..Len(page_of(p)) : page_of(p)[k].obj = i

\* the text matches a live-blog, how-to-watch or gallery pattern
matches_banned(text) ==
    \/ _matches_any(_LIVE_PATTERNS, text)
    \/ _matches_any(_HOWTO_PATTERNS, text)
    \/ _matches_any(_GALLERY_PATTERNS, text)

\* the text the code classifies an item by
joined(it) == it.title \o " " \o it.summary \o " " \o it.url

\* matches_banned on the texts of the items of the universe, computed once
BannedTable ==
    [ t \in {it.title : it \in Universe} \cup {it.summary : it \in Universe}
             \cup {it.url : it \in Universe} \cup {joined(it) : it \in Universe}
        |-> matches_banned(t) ]

\* a field of the item matches such a pattern
field_matches_banned(it) ==
    BannedTable[it.title] \/ BannedTable[it.summary] \/ BannedTable[it.url]

\* the item of the input at position i is in the output
in_output(i) == \E k \in 1..Len(result) : result[k].obj = arg[i].obj

\* C21: an item that matches a live-blog, how-to-watch or gallery pattern in
\* its title, summary or URL (alone or as the code joins them) is never in
\* the output of apply_policy_core, whatever its provider and whatever
\* preview or match-report pattern it matches too.
C21_BannedKindsNeverReturned ==
    op = "policy" =>
        /\ \A i \in 1..Len(arg) :
              (field_matches_banned(arg[i]) \/ BannedTable[joined(arg[i])])
                  => ~in_output(i)
        /\ \A k \in 1..Len(result) : ~field_matches_banned(result[k])

\* a call that was handed a live blog of PainInTheArsenal that is a match
\* report too and a how-to-watch piece of EveningStandard that is a preview
\* too, and returned something else
C21_Witness ==
    /\ op = "policy" /\ result # << >>
    /\ \E i \in 1..Len(arg) :
          /\ BannedTable[arg[i].title] /\ _matches_any(_POST_PATTERNS, arg[i].title)
          /\ provider_of(arg[i]) = "PainInTheArsenal"
    /\ \E i \in 1..Len(arg) :
          /\ BannedTable[arg[i].title] /\ _matches_any(_PRE_PATTERNS, arg[i].title)
          /\ provider_of(arg[i]) = "EveningStandard"

\* the titles and summaries of the items of the universe
TitlesAndSummaries ==
    {it.title : it \in Universe} \cup {it.summary : it \in Universe}

\* the text carries a keyword of the excluded demographic; computed once
ExcludedTable ==
    [ t \in TitlesAndSummaries |->
        \E k \in {"women", "wsl", "wfc", "u19"} : Contains(lower(t), k) ]

\* the text mentions the under-18 or the under-21 side; computed once
YouthTable ==
    [ t \in TitlesAndSummaries |->
        \E k \in {"u18", "u21"} : Contains(lower(t), k) ]

\* C22: with exclude_women at its default, no item whose title or summary
\* carries a keyword of the excluded demographic (women, WSL, WFC, U19) is
\* in the output of apply_policy_core, whatever its provider and URL; an
\* item that mentions only U18 or U21 is not dropped by this rule: it is
\* in the output whenever it is with the rule switched off.
C22_ExcludedDemographicDropped ==
    op = "policy" =>
        /\ \A i \in 1..Len(arg) :
              (ExcludedTable[arg[i].title] \/ ExcludedTable[arg[i].summary])
                  => ~in_output(i)
        /\ \A k \in 1..Len(result) :
              ~ExcludedTable[result[k].title] /\ ~ExcludedTable[result[k].summary]
        /\ \A i \in 1..Len(arg) :
              ( /\ YouthTable[arg[i].title] \/ YouthTable[arg[i].summary]
                /\ ~ExcludedTable[arg[i].title] /\ ~ExcludedTable[arg[i].summary] )
                  => With(apply_policy_core(arg, FALSE), LAMBDA off :
                        (\E k \in 1..Len(off) : off[k].obj = arg[i].obj) => in_output(i))

\* a call that dropped a women's story by its title and another by its
\* summary, both of fan sites, and returned a story on the U18 and U21 sides
C22_Witness ==
    /\ op = "policy"
    /\ \E i \in 1..Len(arg) : ExcludedTable[arg[i].title] /\ ~in_output(i)
    /\ \E i \in 1..Len(arg) :
          ~ExcludedTable[arg[i].title] /\ ExcludedTable[arg[i].summary] /\ ~in_output(i)
    /\ \E i \in 1..Len(arg) : YouthTable[arg[i].title] /\ in_output(i)

\* the relevance signal of an item: a subject-team keyword in its title or
\* summary, the Arsenal section of one of the two papers in its URL, or
\* the word arsenal in its URL; computed once
SignalTable ==
    [ it \in Sources |->
        \/ \E n \in 1..Len(_ARS_KEYWORDS) :
              \/ Contains(lower(it.title), _ARS_KEYWORDS[n])
              \/ Contains(lower(it.summary), _ARS_KEYWORDS[n])
        \/ /\ \E h \in {"dailymail.co.uk", "standard.co.uk"} :
                 Contains(lower(urlparse(it.url)[1]), h)
           /\ Contains(lower(urlparse(it.url)[2]), "/sport/football/arsenal")
        \/ HasWord(lower(it.url), "arsenal") ]

\* the kind _classify_kind gives a title, summary and url; computed once
KindTable ==
    [ x \in {<<it.title, it.summary, it.url>> : it \in Universe} |->
        _classify_kind([title |-> x[1], summary |-> x[2], url |-> x[3]]) ]
kind_of(it) == KindTable[<<it.title, it.summary, it.url>>]

\* no other item of the input has the url or the cluster key of item i
alone_in_input(i) ==
    \A j \in 1..Len(arg) :
        j # i => /\ DedupeKeyTable[arg[j].url] # DedupeKeyTable[arg[i].url]
                 /\ key_of(_polish_summary(arg[j])) # key_of(_polish_summary(arg[i]))

ScoringTime == "2024-03-06T12:00:00Z"
hours_old(it) == (du_parse_utc(ScoringTime) - du_parse_utc(it.publishedUtc)) \div 3600

\* C24: of two items identical except for publishedUtc, the one published
\* within the last 6 hours scores strictly higher than the one published
\* more than 48 hours ago.
C24_FreshnessBonus ==
    (op = "score" /\ hours_old(arg[1]) <= 6 /\ hours_old(arg[2]) > 48) =>
        result[1] > result[2]


\* the rows an upsert added to the table it found
new_rows == SubSeq(db.rows, Len(arg.rows) + 1, Len(db.rows))

\* row r was written from the story it
written_from(r, it) ==
    /\ r.url = strip(it.url)
    /\ r.title = strip(it.title)
    /\ r.publishedUtc = strip(it.publishedUtc)
    /\ r.provider = strip(it.provider)

\* the story lacks a url, a title or a publishedUtc
lacks_a_field(it) == it.url = "" \/ it.title = "" \/ it.publishedUtc = ""

\* C30: after any sequence of upsert_items calls the table holds at most
\* one row per url; a call leaves every row it found as it was and where it
\* was (first write wins, a later story of a stored url changes nothing);
\* and no row is written from a story whose url, title or publishedUtc is
\* missing or empty.
C30_FirstWriteWins ==
    /\ \A i, j \in 1..Len(db.rows) :
          db.rows[i].url = db.rows[j].url => i = j
    /\ op \in {"upsert", "persist"} =>
          /\ Len(arg.rows) <= Len(db.rows)
          /\ SubSeq(db.rows, 1, Len(arg.rows)) = arg.rows
    /\ op = "upsert" =>
          /\ \A k \in 1..Len(new_rows) :
                \E i \in 1..Len(arg.items) :
                   /\ ~lacks_a_field(arg.items[i])
                   /\ written_from(new_rows[k], arg.items[i])
          /\ \A i \in 1..Len(arg.items) :
                lacks_a_field(arg.items[i]) =>
                   \A k \in 1..Len(new_rows) :
                      ~written_from(new_rows[k], arg.items[i])
          /\ result.value = Len(new_rows)

\* an upsert on a table that holds a story, handed a later version of that
\* story under the same url and a story without a title: nothing is written
C30_Witness ==
    /\ op = "upsert"
    /\ arg.rows # << >>
    /\ db.rows = arg.rows
    /\ result.value = 0
    /\ \E i \in 1..Len(arg.items) :
          \E k \in 1..Len(arg.rows) :
             /\ arg.rows[k].url = strip(arg.items[i].url)
             /\ arg.rows[k].title # strip(arg.items[i].title)
    /\ \E i \in 1..Len(arg.items) : arg.items[i].title = ""

\* the live items a merge keyed by url can return: the last of each url
last_of_its_url(its, i) ==
    \A j \in (i + 1)..Len(its) :
        lower(strip(its[j].url)) # lower(strip(its[i].url))

\* C29: fetch_with_persistence never fails because of storage: whichever
\* of ensure_schema, upsert_items and load_items raises, the call returns,
\* and what it returns holds the live items.
C29_StorageNeverFailsTheFetch ==
    op = "persist" =>
        /\ ~result.raised
        /\ \A i \in 1..Len(arg.items) :
              last_of_its_url(arg.items, i) =>
                 \E k \in 1..Len(result.value) :
                    result.value[k] = arg.items[i]

=============================================================================
